---- MODULE Spec2Model ----
(***************************************************************************)
(* AES cipher core of crypto-algo-rs: key schedule, round pipeline, CBC    *)
(* chaining and PKCS#7 padding, modelled from src/aes/src.                 *)
(*                                                                         *)
(* Rust arrays and vectors are 0-based; the sequences below are 1-based,   *)
(* so the Rust element x[i] is x[i + 1] here.  A 4x4 state is a sequence   *)
(* of four 4-byte sequences, state[c][r] in Rust being state[c+1][r+1].    *)
(***************************************************************************)
EXTENDS Integers, Sequences, FiniteSets, TLC

VARIABLES
  pc,                \* where the caller is
  pk,                \* the key bytes handed to KeySchedule::new
  ks,                \* what KeySchedule::new returned
  iv,                \* CbcEncryptor.iv
  message,           \* the argument of the last encrypt
  encrypted_blocks,  \* what the last encrypt returned
  cipher_bytes,      \* the argument of the last decrypt
  dec_result,        \* what the last decrypt returned
  decrypt_calls,     \* calls of AesOps::decrypt made by the last decrypt
  plain_state,       \* the state handed to AesOps::encrypt
  state,             \* the state AesOps::encrypt / AesOps::decrypt works on
  pad_arg,           \* the buffer handed to pad_input
  buffer,            \* the Vec<u8> pad_input and strip_output work on
  strip_arg,         \* the buffer as it was handed to strip_output
  strip_outcome,     \* how the last strip_output ended
  ga, gb, gc,        \* the bytes handed to galois_mul
  products,          \* what the calls of galois_mul returned
  mod_a, mod_m,      \* the arguments of mod_inverse
  mod_result,        \* what mod_inverse returned
  mr_p,              \* the number handed to MRPT::is_prime
  mr_result,         \* what MRPT::is_prime returned
  binary,            \* the bit string handed to pad_binary
  build,             \* whether overflow checks are compiled in
  padded_binary,     \* how pad_binary ended
  cur_round,         \* `round` inside AesOps::encrypt / AesOps::decrypt
  steps,             \* the steps the running block call has performed
  in_bytes,          \* the 16 bytes handed to a state constructor
  data,              \* State.data as State::new built it
  aes,               \* what AES::new returned
  cbc_state,         \* CbcEncryptor.state
  chain_blocks,      \* input_blocks of the running CbcEncryptor::encrypt
  block_index,       \* how many blocks the running encrypt has taken
  chain_value,       \* working_state of the running encrypt
  chain_out,         \* encrypted_blocks of the running encrypt
  block_calls,       \* calls of AesOps::encrypt made by the running encrypt
  first_blocks,      \* what the first encrypt of the message returned
  calls              \* the encrypt / decrypt calls made on the encryptor

\* the variables of the padding calls
padVars == << pad_arg, buffer, strip_arg, strip_outcome >>

\* the variables of the galois_mul calls
galoisVars == << ga, gb, gc, products >>

\* the variables of the mod_inverse calls
modVars == << mod_a, mod_m, mod_result >>

\* the variables of the key schedule, block and CBC calls
aesVars == << pk, ks, iv, message, encrypted_blocks, cipher_bytes,
              dec_result, decrypt_calls, plain_state, state >>

\* the variables of the MRPT::is_prime calls
mrVars == << mr_p, mr_result >>

\* the variables of the pad_binary calls
shaVars == << binary, build, padded_binary >>

\* the position inside a block call
roundVars == << cur_round, steps >>

\* the variables of the state constructors and AES::new
ctorVars == << in_bytes, data, aes >>

\* the encryptor's state field and the position inside its encrypt
chainVars == << cbc_state, chain_blocks, block_index, chain_value,
                chain_out, block_calls, first_blocks, calls >>

restVars == << mrVars, shaVars, roundVars, ctorVars, chainVars >>

vars == << pc, aesVars, padVars, galoisVars, modVars, restVars >>

(***************************************************************************)
(* Bounds of the model.                                                    *)
(***************************************************************************)
\* keys of every length 0..MaxKeyLen are offered to KeySchedule::new
MaxKeyLen == 50
\* messages of every length 0..MaxMsgLen are offered to CbcEncryptor::encrypt
MaxMsgLen == 32

(***************************************************************************)
(* Program constants.                                                      *)
(***************************************************************************)
BLOCK_SIZE == 16
AES_KEY_SIZE_128 == 16
AES_KEY_SIZE_192 == 24
AES_KEY_SIZE_256 == 32
ROUNDS_128 == 10
ROUNDS_192 == 12
ROUNDS_256 == 14
\* the length of the array `[u8; 16]` that KeySchedule::new converts pk into
KEY_ARRAY_LEN == 16
\* the number of rounds key_expansion generates (`for round in 0..10`)
EXPANSION_ROUNDS == 10
\* the reduction constant `m` of galois_mul
GALOIS_M == 27

(***************************************************************************)
(* Bytes and the bitwise operations of u8.                                 *)
(***************************************************************************)
\* a ^ b on 4-bit values, XorNibble[a + 1][b + 1]
XorNibble ==
  <<
    << 0, 1, 2, 3, 4, 5, 6, 7, 8, 9, 10, 11, 12, 13, 14, 15 >>,
    << 1, 0, 3, 2, 5, 4, 7, 6, 9, 8, 11, 10, 13, 12, 15, 14 >>,
    << 2, 3, 0, 1, 6, 7, 4, 5, 10, 11, 8, 9, 14, 15, 12, 13 >>,
    << 3, 2, 1, 0, 7, 6, 5, 4, 11, 10, 9, 8, 15, 14, 13, 12 >>,
    << 4, 5, 6, 7, 0, 1, 2, 3, 12, 13, 14, 15, 8, 9, 10, 11 >>,
    << 5, 4, 7, 6, 1, 0, 3, 2, 13, 12, 15, 14, 9, 8, 11, 10 >>,
    << 6, 7, 4, 5, 2, 3, 0, 1, 14, 15, 12, 13, 10, 11, 8, 9 >>,
    << 7, 6, 5, 4, 3, 2, 1, 0, 15, 14, 13, 12, 11, 10, 9, 8 >>,
    << 8, 9, 10, 11, 12, 13, 14, 15, 0, 1, 2, 3, 4, 5, 6, 7 >>,
    << 9, 8, 11, 10, 13, 12, 15, 14, 1, 0, 3, 2, 5, 4, 7, 6 >>,
    << 10, 11, 8, 9, 14, 15, 12, 13, 2, 3, 0, 1, 6, 7, 4, 5 >>,
    << 11, 10, 9, 8, 15, 14, 13, 12, 3, 2, 1, 0, 7, 6, 5, 4 >>,
    << 12, 13, 14, 15, 8, 9, 10, 11, 4, 5, 6, 7, 0, 1, 2, 3 >>,
    << 13, 12, 15, 14, 9, 8, 11, 10, 5, 4, 7, 6, 1, 0, 3, 2 >>,
    << 14, 15, 12, 13, 10, 11, 8, 9, 6, 7, 4, 5, 2, 3, 0, 1 >>,
    << 15, 14, 13, 12, 11, 10, 9, 8, 7, 6, 5, 4, 3, 2, 1, 0 >> >>

\* the Rust operator `^` on u8
Xor(a, b) ==
  16 * XorNibble[(a \div 16) + 1][(b \div 16) + 1]
     + XorNibble[(a % 16) + 1][(b % 16) + 1]

\* `a <<= 1` on u8 (the bit shifted out is lost)
Shl1(a) == (2 * a) % 256

\* `b >>= 1` on u8
Shr1(b) == b \div 2

(***************************************************************************)
(* constants.rs of the aes crate: the fixed tables of FIPS-197.            *)
(***************************************************************************)
AES_S_BOX ==
  <<
    99, 124, 119, 123, 242, 107, 111, 197, 48, 1, 103, 43, 254, 215, 171, 118,
    202, 130, 201, 125, 250, 89, 71, 240, 173, 212, 162, 175, 156, 164, 114, 192,
    183, 253, 147, 38, 54, 63, 247, 204, 52, 165, 229, 241, 113, 216, 49, 21,
    4, 199, 35, 195, 24, 150, 5, 154, 7, 18, 128, 226, 235, 39, 178, 117,
    9, 131, 44, 26, 27, 110, 90, 160, 82, 59, 214, 179, 41, 227, 47, 132,
    83, 209, 0, 237, 32, 252, 177, 91, 106, 203, 190, 57, 74, 76, 88, 207,
    208, 239, 170, 251, 67, 77, 51, 133, 69, 249, 2, 127, 80, 60, 159, 168,
    81, 163, 64, 143, 146, 157, 56, 245, 188, 182, 218, 33, 16, 255, 243, 210,
    205, 12, 19, 236, 95, 151, 68, 23, 196, 167, 126, 61, 100, 93, 25, 115,
    96, 129, 79, 220, 34, 42, 144, 136, 70, 238, 184, 20, 222, 94, 11, 219,
    224, 50, 58, 10, 73, 6, 36, 92, 194, 211, 172, 98, 145, 149, 228, 121,
    231, 200, 55, 109, 141, 213, 78, 169, 108, 86, 244, 234, 101, 122, 174, 8,
    186, 120, 37, 46, 28, 166, 180, 198, 232, 221, 116, 31, 75, 189, 139, 138,
    112, 62, 181, 102, 72, 3, 246, 14, 97, 53, 87, 185, 134, 193, 29, 158,
    225, 248, 152, 17, 105, 217, 142, 148, 155, 30, 135, 233, 206, 85, 40, 223,
    140, 161, 137, 13, 191, 230, 66, 104, 65, 153, 45, 15, 176, 84, 187, 22 >>

AES_INVERSE_S_BOX ==
  <<
    82, 9, 106, 213, 48, 54, 165, 56, 191, 64, 163, 158, 129, 243, 215, 251,
    124, 227, 57, 130, 155, 47, 255, 135, 52, 142, 67, 68, 196, 222, 233, 203,
    84, 123, 148, 50, 166, 194, 35, 61, 238, 76, 149, 11, 66, 250, 195, 78,
    8, 46, 161, 102, 40, 217, 36, 178, 118, 91, 162, 73, 109, 139, 209, 37,
    114, 248, 246, 100, 134, 104, 152, 22, 212, 164, 92, 204, 93, 101, 182, 146,
    108, 112, 72, 80, 253, 237, 185, 218, 94, 21, 70, 87, 167, 141, 157, 132,
    144, 216, 171, 0, 140, 188, 211, 10, 247, 228, 88, 5, 184, 179, 69, 6,
    208, 44, 30, 143, 202, 63, 15, 2, 193, 175, 189, 3, 1, 19, 138, 107,
    58, 145, 17, 65, 79, 103, 220, 234, 151, 242, 207, 206, 240, 180, 230, 115,
    150, 172, 116, 34, 231, 173, 53, 133, 226, 249, 55, 232, 28, 117, 223, 110,
    71, 241, 26, 113, 29, 41, 197, 137, 111, 183, 98, 14, 170, 24, 190, 27,
    252, 86, 62, 75, 198, 210, 121, 32, 154, 219, 192, 254, 120, 205, 90, 244,
    31, 221, 168, 51, 136, 7, 199, 49, 177, 18, 16, 89, 39, 128, 236, 95,
    96, 81, 127, 169, 25, 181, 74, 13, 45, 229, 122, 159, 147, 201, 156, 239,
    160, 224, 59, 77, 174, 42, 245, 176, 200, 235, 187, 60, 131, 83, 153, 97,
    23, 43, 4, 126, 186, 119, 214, 38, 225, 105, 20, 99, 85, 33, 12, 125 >>

TRANSFORMATION_MATRIX ==
  << << 2, 3, 1, 1 >>,
     << 1, 2, 3, 1 >>,
     << 1, 1, 2, 3 >>,
     << 3, 1, 1, 2 >> >>

INVERSE_TRANSFORMATION_MATRIX ==
  << << 14, 11, 13, 9 >>,
     << 9, 14, 11, 13 >>,
     << 13, 9, 14, 11 >>,
     << 11, 13, 9, 14 >> >>

ROUND_CONSTANT_128 ==
  << 1, 2, 4, 8, 16, 32, 64, 128, 27, 54 >>

(***************************************************************************)
(* util.rs                                                                 *)
(***************************************************************************)
\* gen_matrix: chunk i of four bytes becomes matrix[i], byte j of it matrix[i][j]
gen_row(bytes, i) ==
  << bytes[4 * i + 1], bytes[4 * i + 2], bytes[4 * i + 3], bytes[4 * i + 4] >>

gen_matrix(bytes) ==
  << gen_row(bytes, 0), gen_row(bytes, 1), gen_row(bytes, 2), gen_row(bytes, 3) >>

xor_array(a, b) ==
  << Xor(a[1], b[1]), Xor(a[2], b[2]), Xor(a[3], b[3]), Xor(a[4], b[4]) >>

xor_matrices(a, b) ==
  << xor_array(a[1], b[1]), xor_array(a[2], b[2]),
     xor_array(a[3], b[3]), xor_array(a[4], b[4]) >>

\* split_at(n % 4), then right followed by left
rotate_left(matrix, n) ==
  LET m == n % Len(matrix)
  IN  SubSeq(matrix, m + 1, Len(matrix)) \o SubSeq(matrix, 1, m)

\* the loop body of galois_mul, iterations i..7, on the registers (a, b, p)
RECURSIVE galois_loop(_, _, _, _)
galois_loop(i, a, b, p) ==
  IF i = 8 THEN p
  ELSE LET p1      == IF b % 2 # 0 THEN Xor(p, a) ELSE p
           msb_set == a \div 128 # 0
           a1      == Shl1(a)
           b1      == Shr1(b)
           a2      == IF msb_set THEN Xor(a1, GALOIS_M) ELSE a1
       IN  galois_loop(i + 1, a2, b1, p1)

\* the loop of galois_mul without the modular reduction
RECURSIVE galois_loop_no_reduce(_, _, _, _)
galois_loop_no_reduce(i, a, b, p) ==
  IF i = 8 THEN p
  ELSE LET p1 == IF b % 2 # 0 THEN Xor(p, a) ELSE p
       IN  galois_loop_no_reduce(i + 1, Shl1(a), Shr1(b), p1)

galois_mul_no_reduce(a, b) == galois_loop_no_reduce(0, a, b, 0)

\* the loop of galois_mul running `for i in 0..7`
RECURSIVE galois_loop_seven(_, _, _, _)
galois_loop_seven(i, a, b, p) ==
  IF i = 7 THEN p
  ELSE LET p1      == IF b % 2 # 0 THEN Xor(p, a) ELSE p
           msb_set == a \div 128 # 0
           a1      == Shl1(a)
           b1      == Shr1(b)
           a2      == IF msb_set THEN Xor(a1, GALOIS_M) ELSE a1
       IN  galois_loop_seven(i + 1, a2, b1, p1)

galois_mul_seven_steps(a, b) == galois_loop_seven(0, a, b, 0)

galois_mul(a, b) == galois_loop(0, a, b, 0)

(***************************************************************************)
(* utils.rs: the second copy of galois_mul, which leaves b as it is and    *)
(* tests its bit i in iteration i                                          *)
(***************************************************************************)
\* 1 << i
Pow2(i) == 2 ^ i

\* b & (1 << i) != 0
BitSet(b, i) == (b \div Pow2(i)) % 2 # 0

RECURSIVE utils_galois_loop(_, _, _, _)
utils_galois_loop(i, temp_a, b, p) ==
  IF i = 8 THEN p
  ELSE LET p1      == IF BitSet(b, i) THEN Xor(p, temp_a) ELSE p
           msb_set == temp_a \div 128 # 0
           t1      == Shl1(temp_a)
           t2      == IF msb_set THEN Xor(t1, GALOIS_M) ELSE t1
       IN  utils_galois_loop(i + 1, t2, b, p1)

utils_galois_mul(a, b) == utils_galois_loop(0, a, b, 0)

(***************************************************************************)
(* key_schedule.rs                                                         *)
(***************************************************************************)
\* Result<_, AesError> values
Ok(v) == [tag |-> "Ok", val |-> v, err |-> "", arg |-> 0]
Err(e, n) == [tag |-> "Err", val |-> << >>, err |-> e, arg |-> n]

\* g_function without the rotation of the word
g_function_no_rotate(word, rc) ==
  LET new_word == << AES_S_BOX[word[1] + 1], AES_S_BOX[word[2] + 1],
                     AES_S_BOX[word[3] + 1], AES_S_BOX[word[4] + 1] >>
  IN  << Xor(new_word[1], rc), new_word[2], new_word[3], new_word[4] >>

\* g_function: rotate left by one byte, substitute, XOR rc into byte 0
g_function(word, rc) ==
  LET rot      == rotate_left(word, 1)
      new_word == << AES_S_BOX[rot[1] + 1], AES_S_BOX[rot[2] + 1],
                     AES_S_BOX[rot[3] + 1], AES_S_BOX[rot[4] + 1] >>
  IN  << Xor(new_word[1], rc), new_word[2], new_word[3], new_word[4] >>

\* generate_new_round: array_rc starts as g(last word) and is replaced by
\* each new word in turn
generate_new_round(key_matrix, rc) ==
  LET g  == g_function(key_matrix[Len(key_matrix)], rc)
      n0 == xor_array(g, key_matrix[1])
      n1 == xor_array(n0, key_matrix[2])
      n2 == xor_array(n1, key_matrix[3])
      n3 == xor_array(n2, key_matrix[4])
  IN  << n0, n1, n2, n3 >>

\* pk.chunks(4), each chunk copied into a zeroed [u8; 4]
RECURSIVE key_chunks(_)
key_chunks(bytes) ==
  IF Len(bytes) = 0 THEN << >>
  ELSE LET len == IF Len(bytes) < 4 THEN Len(bytes) ELSE 4
           array == [j \in 1..4 |-> IF j <= len THEN bytes[j] ELSE 0]
       IN  << << array[1], array[2], array[3], array[4] >> >>
             \o key_chunks(SubSeq(bytes, len + 1, Len(bytes)))

\* the loop `for round in 0..10` of key_expansion, from iteration round on
RECURSIVE expansion_loop(_, _)
expansion_loop(words, round) ==
  IF round = EXPANSION_ROUNDS THEN Ok(words)
  ELSE LET from  == IF Len(words) < 4 THEN 0 ELSE Len(words) - 4
           slice == SubSeq(words, from + 1, Len(words))
       IN  IF Len(slice) # 4 THEN Err("KeyMatrixConversionError", 0)
           ELSE expansion_loop(
                  words \o generate_new_round(slice, ROUND_CONSTANT_128[round + 1]),
                  round + 1)

key_expansion(key) == expansion_loop(key_chunks(key), 0)

\* KeySchedule::new reporting the rounds of a 192-bit key for 16 bytes
KeySchedule_new_rounds_192(key) ==
  IF Len(key) # KEY_ARRAY_LEN THEN Err("InvalidKeySize", Len(key))
  ELSE LET keys == key_expansion(key)
       IN  IF keys.tag = "Err" THEN keys
           ELSE Ok([keys |-> keys.val, rounds |-> ROUNDS_192])

\* KeySchedule::new taking the first 16 bytes of a longer key
KeySchedule_new_truncating(key) ==
  IF Len(key) < KEY_ARRAY_LEN THEN Err("InvalidKeySize", Len(key))
  ELSE LET keys == key_expansion(SubSeq(key, 1, KEY_ARRAY_LEN))
       IN  IF keys.tag = "Err" THEN keys
           ELSE Ok([keys |-> keys.val, rounds |-> ROUNDS_128])

\* KeySchedule::new: the conversion to [u8; 16] fails for every other length,
\* and the match is on the length of the converted array
KeySchedule_new(key) ==
  IF Len(key) # KEY_ARRAY_LEN THEN Err("InvalidKeySize", Len(key))
  ELSE LET keys == key_expansion(key)
           len  == KEY_ARRAY_LEN
       IN  IF keys.tag = "Err" THEN keys
           ELSE CASE len = AES_KEY_SIZE_128 ->
                       Ok([keys |-> keys.val, rounds |-> ROUNDS_128])
                  [] len = AES_KEY_SIZE_192 ->
                       Ok([keys |-> keys.val, rounds |-> ROUNDS_192])
                  [] len = AES_KEY_SIZE_256 ->
                       Ok([keys |-> keys.val, rounds |-> ROUNDS_256])
                  [] OTHER -> Err("InvalidKeySize", len)

\* KeySchedule::round_key: words [4 * round, 4 * round + 4)
round_key(sched, round) ==
  LET start == round * 4
  IN  << sched.keys[start + 1], sched.keys[start + 2],
         sched.keys[start + 3], sched.keys[start + 4] >>

(***************************************************************************)
(* state.rs and lib.rs                                                     *)
(***************************************************************************)
\* State::new: byte j of chunk i goes to data[j][i]
State_new(bytes) ==
  << << bytes[1], bytes[5], bytes[9], bytes[13] >>,
     << bytes[2], bytes[6], bytes[10], bytes[14] >>,
     << bytes[3], bytes[7], bytes[11], bytes[15] >>,
     << bytes[4], bytes[8], bytes[12], bytes[16] >> >>

\* what InvalidBitsSize carries
INVALID_BITS_ARG == 12

\* AES::new: the block bytes are converted first, then the state and the
\* key schedule are built
AES_new(key, bytes) ==
  IF Len(bytes) # 16 THEN Err("InvalidBitsSize", INVALID_BITS_ARG)
  ELSE LET st    == gen_matrix(bytes)
           sched == KeySchedule_new(key)
       IN  IF sched.tag = "Err" THEN sched
           ELSE Ok([state |-> st, key_schedule |-> sched.val])

(***************************************************************************)
(* aes_ops.rs                                                              *)
(***************************************************************************)
add_round_key(st, key) == xor_matrices(st, key)

sub_word(w, s_box) ==
  << s_box[w[1] + 1], s_box[w[2] + 1], s_box[w[3] + 1], s_box[w[4] + 1] >>

sub_bytes(st, s_box) ==
  << sub_word(st[1], s_box), sub_word(st[2], s_box),
     sub_word(st[3], s_box), sub_word(st[4], s_box) >>

\* column j of shift_rows with every row but the first shifted by one
shift_col_by_one(st, j) ==
  << st[j + 1][1], st[((j + 1) % 4) + 1][2],
     st[((j + 1) % 4) + 1][3], st[((j + 1) % 4) + 1][4] >>

\* shift_rows: for i in 1..4, temp[j] = state[(j + i) % 4][i], then
\* state[j][i] = temp[j]; row 0 is not touched
shift_col(st, j) ==
  << st[j + 1][1], st[((j + 1) % 4) + 1][2],
     st[((j + 2) % 4) + 1][3], st[((j + 3) % 4) + 1][4] >>

shift_rows(st) ==
  << shift_col(st, 0), shift_col(st, 1), shift_col(st, 2), shift_col(st, 3) >>

\* inv_shift_rows: the three temp arrays of the code, row by row
inv_shift_rows(st) ==
  LET temp1 == << st[4][2], st[1][2], st[2][2], st[3][2] >>
      temp2 == << st[3][3], st[4][3], st[1][3], st[2][3] >>
      temp3 == << st[2][4], st[3][4], st[4][4], st[1][4] >>
  IN  << << st[1][1], temp1[1], temp2[1], temp3[1] >>,
         << st[2][1], temp1[2], temp2[2], temp3[2] >>,
         << st[3][1], temp1[3], temp2[3], temp3[3] >>,
         << st[4][1], temp1[4], temp2[4], temp3[4] >> >>

\* temp_column[i] with the last product taken from byte 2 of the column
mix_byte_wrong_index(tm, column, i) ==
  Xor(Xor(Xor(galois_mul(tm[i][1], column[1]),
              galois_mul(tm[i][2], column[2])),
          galois_mul(tm[i][3], column[3])),
      galois_mul(tm[i][4], column[3]))

\* temp_column[i] of mix_columns for one column
mix_byte(tm, column, i) ==
  Xor(Xor(Xor(galois_mul(tm[i][1], column[1]),
              galois_mul(tm[i][2], column[2])),
          galois_mul(tm[i][3], column[3])),
      galois_mul(tm[i][4], column[4]))

mix_column(tm, column) ==
  << mix_byte(tm, column, 1), mix_byte(tm, column, 2),
     mix_byte(tm, column, 3), mix_byte(tm, column, 4) >>

mix_columns(st, transformation_matrix) ==
  << mix_column(transformation_matrix, st[1]),
     mix_column(transformation_matrix, st[2]),
     mix_column(transformation_matrix, st[3]),
     mix_column(transformation_matrix, st[4]) >>

\* TLC evaluates the arguments of an operator only when they are used; a loop
\* whose body is long starts each iteration with Computed(st), so that the
\* value of the previous iteration is computed before the next one starts
Computed(v) == v = v

\* `for round in 1..(rounds)` stopping one round early
main_round_short(round, rounds) == round < rounds - 1

\* `for round in 1..(rounds)`: the body runs while round < rounds
main_round(round, rounds) == round < rounds

\* `for round in (1..(rounds)).rev()` running down to round 0
reverse_round_to_zero(round) == round >= 0

\* `for round in (1..(rounds)).rev()`: the body runs while round >= 1
reverse_round(round) == round >= 1

\* one step of a block call, as the log keeps it; key is -1 for a step
\* that takes no round key
Step(op, key) == [op |-> op, key |-> key]

\* the main encryption rounds `for round in 1..rounds`
RECURSIVE encrypt_rounds(_, _, _)
encrypt_rounds(st, sched, round) ==
  IF Computed(st) /\ round >= sched.rounds THEN st
  ELSE encrypt_rounds(
         add_round_key(
           mix_columns(shift_rows(sub_bytes(st, AES_S_BOX)), TRANSFORMATION_MATRIX),
           round_key(sched, round)),
         sched, round + 1)

\* AesOps::encrypt with MixColumns in the final round as well
AesOps_encrypt_mix_last(st, sched) ==
  add_round_key(
    mix_columns(
      shift_rows(
        sub_bytes(encrypt_rounds(add_round_key(st, round_key(sched, 0)), sched, 1),
                  AES_S_BOX)),
      TRANSFORMATION_MATRIX),
    round_key(sched, sched.rounds))

\* AesOps::encrypt
AesOps_encrypt(st, sched) ==
  add_round_key(
    shift_rows(
      sub_bytes(encrypt_rounds(add_round_key(st, round_key(sched, 0)), sched, 1),
                AES_S_BOX)),
    round_key(sched, sched.rounds))

\* the main decryption rounds `for round in (1..rounds).rev()`
RECURSIVE decrypt_rounds(_, _, _)
decrypt_rounds(st, sched, round) ==
  IF Computed(st) /\ round < 1 THEN st
  ELSE decrypt_rounds(
         mix_columns(
           add_round_key(sub_bytes(inv_shift_rows(st), AES_INVERSE_S_BOX),
                         round_key(sched, round)),
           INVERSE_TRANSFORMATION_MATRIX),
         sched, round - 1)

\* the decryption rounds with InvMixColumns before AddRoundKey
RECURSIVE decrypt_rounds_mix_first(_, _, _)
decrypt_rounds_mix_first(st, sched, round) ==
  IF Computed(st) /\ round < 1 THEN st
  ELSE decrypt_rounds_mix_first(
         add_round_key(
           mix_columns(sub_bytes(inv_shift_rows(st), AES_INVERSE_S_BOX),
                       INVERSE_TRANSFORMATION_MATRIX),
           round_key(sched, round)),
         sched, round - 1)

\* AesOps::decrypt with that round order
AesOps_decrypt_mix_first(st, sched) ==
  add_round_key(
    sub_bytes(
      inv_shift_rows(
        decrypt_rounds_mix_first(add_round_key(st, round_key(sched, sched.rounds)),
                                 sched, sched.rounds - 1)),
      AES_INVERSE_S_BOX),
    round_key(sched, 0))

\* AesOps::decrypt
AesOps_decrypt(st, sched) ==
  add_round_key(
    sub_bytes(
      inv_shift_rows(
        decrypt_rounds(add_round_key(st, round_key(sched, sched.rounds)),
                       sched, sched.rounds - 1)),
      AES_INVERSE_S_BOX),
    round_key(sched, 0))

(***************************************************************************)
(* padding.rs                                                              *)
(***************************************************************************)
\* pad_input adding nothing to a buffer that is already a whole number of blocks
pad_input_no_full_block(input_buffer) ==
  LET pad_size == (BLOCK_SIZE - (Len(input_buffer) % BLOCK_SIZE)) % BLOCK_SIZE
      padding  == [i \in 1..pad_size |-> pad_size]
  IN  input_buffer \o padding

\* PkcsPadding::pad_input
pad_input(input_buffer) ==
  LET pad_size == BLOCK_SIZE - (Len(input_buffer) % BLOCK_SIZE)
      padding  == [i \in 1..pad_size |-> pad_size]
  IN  input_buffer \o padding

\* how a call ends: it returns, or it panics with a message
Returned(buf) == [outcome |-> "returned", buffer |-> buf]
Panic(msg, buf) == [outcome |-> msg, buffer |-> buf]

\* slice::ends_with
ends_with(v, suffix) ==
  /\ Len(suffix) <= Len(v)
  /\ \A j \in 1..Len(suffix) : v[Len(v) - Len(suffix) + j] = suffix[j]

\* Vec::truncate: keeps the first len elements, or all when there are fewer
truncate(v, len) == IF len < Len(v) THEN SubSeq(v, 1, len) ELSE v

\* strip_output calling truncate(pad_size)
strip_output_truncate_to_pad(output_buffer) ==
  IF Len(output_buffer) % BLOCK_SIZE # 0
  THEN Panic("Invalid output size: length is not a multiple of 16.", output_buffer)
  ELSE IF Len(output_buffer) > 0
       THEN LET pad_size         == output_buffer[Len(output_buffer)]
                expected_padding == [j \in 1..pad_size |-> pad_size]
            IN  IF pad_size > BLOCK_SIZE \/ pad_size = 0
                THEN Panic("Invalid padding: incorrect padding size.", output_buffer)
                ELSE IF ends_with(output_buffer, expected_padding)
                     THEN Returned(truncate(output_buffer, pad_size))
                     ELSE Panic("Invalid padding: incorrect padding bytes.",
                                output_buffer)
       ELSE Panic("Invalid padding: empty output buffer.", output_buffer)

\* strip_output without the check of the length
strip_output_no_size_check(output_buffer) ==
  IF Len(output_buffer) > 0
  THEN LET pad_size         == output_buffer[Len(output_buffer)]
           expected_padding == [j \in 1..pad_size |-> pad_size]
       IN  IF pad_size > BLOCK_SIZE \/ pad_size = 0
           THEN Panic("Invalid padding: incorrect padding size.", output_buffer)
           ELSE IF ends_with(output_buffer, expected_padding)
                THEN Returned(truncate(output_buffer, Len(output_buffer) - pad_size))
                ELSE Panic("Invalid padding: incorrect padding bytes.",
                           output_buffer)
  ELSE Panic("Invalid padding: empty output buffer.", output_buffer)

\* PkcsPadding::strip_output: the first check that fails panics; `if let
\* Some(&pad_size) = output_buffer.last()` is the test for a non-empty buffer
strip_output(output_buffer) ==
  IF Len(output_buffer) % BLOCK_SIZE # 0
  THEN Panic("Invalid output size: length is not a multiple of 16.", output_buffer)
  ELSE IF Len(output_buffer) > 0
       THEN LET pad_size         == output_buffer[Len(output_buffer)]
                expected_padding == [j \in 1..pad_size |-> pad_size]
            IN  IF pad_size > BLOCK_SIZE \/ pad_size = 0
                THEN Panic("Invalid padding: incorrect padding size.", output_buffer)
                ELSE IF ends_with(output_buffer, expected_padding)
                     THEN Returned(truncate(output_buffer,
                                            Len(output_buffer) - pad_size))
                     ELSE Panic("Invalid padding: incorrect padding bytes.",
                                output_buffer)
       ELSE Panic("Invalid padding: empty output buffer.", output_buffer)

(***************************************************************************)
(* block_modes.rs                                                          *)
(***************************************************************************)
\* chunk_bytes_into_4x4_matrices: the ordered 16-byte blocks of the buffer,
\* each laid out as gen_matrix lays it out
chunk_bytes_into_4x4_matrices(bytes) ==
  [i \in 1..(Len(bytes) \div 16) |->
     gen_matrix(SubSeq(bytes, 16 * (i - 1) + 1, 16 * i))]

\* block.into_iter() followed by row.into_iter(): the 16 bytes of one block
block_bytes(block) == block[1] \o block[2] \o block[3] \o block[4]

\* the flat_map / collect at the end of decrypt
RECURSIVE flatten_blocks(_)
flatten_blocks(blocks) ==
  IF Len(blocks) = 0 THEN << >>
  ELSE block_bytes(Head(blocks)) \o flatten_blocks(Tail(blocks))

\* `for block in input_blocks` leaving the last block out
more_blocks_but_last(taken, blocks) == taken < Len(blocks) - 1

\* `for block in input_blocks`: the body runs while a block is left
more_blocks(taken, blocks) == taken < Len(blocks)

\* the loop `for block in input_blocks` of encrypt, from block i on
RECURSIVE cbc_encrypt_loop(_, _, _, _, _)
cbc_encrypt_loop(input_blocks, i, working_state, sched, blocks_out) ==
  IF Computed(working_state) /\ i > Len(input_blocks) THEN blocks_out
  ELSE LET encrypted == AesOps_encrypt(working_state, sched)
       IN  cbc_encrypt_loop(input_blocks, i + 1,
                            xor_matrices(encrypted, input_blocks[i]),
                            sched, Append(blocks_out, encrypted))

\* CbcEncryptor::encrypt starting the chain without the iv
CbcEncryptor_encrypt_no_iv(self_iv, sched, msg) ==
  LET plain_bytes  == pad_input(msg)
      input_blocks == chunk_bytes_into_4x4_matrices(plain_bytes)
  IN  Ok(cbc_encrypt_loop(input_blocks, 1, input_blocks[1], sched, << >>))

\* CbcEncryptor::encrypt
CbcEncryptor_encrypt(self_iv, sched, msg) ==
  LET plain_bytes  == pad_input(msg)
      input_blocks == chunk_bytes_into_4x4_matrices(plain_bytes)
  IN  Ok(cbc_encrypt_loop(input_blocks, 1,
                          xor_matrices(input_blocks[1], self_iv),
                          sched, << >>))

\* the loop of decrypt chaining the decrypted block instead of the ciphertext
\* block
RECURSIVE cbc_decrypt_loop_chain_plain(_, _, _, _, _)
cbc_decrypt_loop_chain_plain(input_blocks, i, working_block, sched, decrypted_blocks) ==
  IF Computed(decrypted_blocks) /\ i > Len(input_blocks) THEN decrypted_blocks
  ELSE LET block        == input_blocks[i]
           cipher_block == xor_matrices(AesOps_decrypt(block, sched), working_block)
       IN  cbc_decrypt_loop_chain_plain(input_blocks, i + 1, cipher_block, sched,
                                        Append(decrypted_blocks, cipher_block))

\* the loop `for block in input_blocks` of decrypt, from block i on
RECURSIVE cbc_decrypt_loop(_, _, _, _, _)
cbc_decrypt_loop(input_blocks, i, working_block, sched, decrypted_blocks) ==
  IF Computed(decrypted_blocks) /\ i > Len(input_blocks) THEN decrypted_blocks
  ELSE LET block        == input_blocks[i]
           cipher_block == xor_matrices(AesOps_decrypt(block, sched), working_block)
       IN  cbc_decrypt_loop(input_blocks, i + 1, block, sched,
                            Append(decrypted_blocks, cipher_block))

\* CbcEncryptor::decrypt checking the length after the whole blocks have been
\* decrypted
CbcEncryptor_decrypt_late_check(self_iv, sched, bytes) ==
  LET input_blocks     == chunk_bytes_into_4x4_matrices(bytes)
      decrypted_blocks == cbc_decrypt_loop(input_blocks, 1, self_iv, sched, << >>)
  IN  IF Len(bytes) % 16 # 0
      THEN [result |-> Err("InvalidCipherText", 0), calls |-> Len(decrypted_blocks)]
      ELSE [result |-> Ok(flatten_blocks(decrypted_blocks)),
            calls  |-> Len(input_blocks)]

\* CbcEncryptor::decrypt.  `calls` is the number of calls of AesOps::decrypt
\* the call has made: one for every iteration of the loop.
CbcEncryptor_decrypt(self_iv, sched, bytes) ==
  IF Len(bytes) % 16 # 0
  THEN [result |-> Err("InvalidCipherText", 0), calls |-> 0]
  ELSE LET input_blocks     == chunk_bytes_into_4x4_matrices(bytes)
           decrypted_blocks == cbc_decrypt_loop(input_blocks, 1, self_iv, sched, << >>)
       IN  [result |-> Ok(flatten_blocks(decrypted_blocks)),
            calls  |-> Len(input_blocks)]

(***************************************************************************)
(* The inputs offered to the operations.                                   *)
(***************************************************************************)
\* len bytes, byte i (0-based) being step * i mod 256
Pattern(len, step) == [i \in 1..len |-> (step * (i - 1)) % 256]

\* the key, plaintext and iv of the tests of key_schedule.rs, aes_ops.rs and
\* block_modes.rs
TestKey == Pattern(16, 1)
INPUT == Pattern(16, 17)
IV == << 102, 71, 120, 83, 87, 100, 53, 57, 65, 89, 100, 105, 81, 88, 90, 83 >>

KeySteps == {1, 7}
Keys == {Pattern(len, step) : len \in 0..MaxKeyLen, step \in KeySteps}

\* gen_iv draws the iv from OsRng: any 16 bytes
IVs == {IV, Pattern(16, 11)}

MsgSteps == {17}
Messages == {Pattern(len, step) : len \in 0..MaxMsgLen, step \in MsgSteps}

Blocks == {gen_matrix(INPUT), gen_matrix(Pattern(16, 5)), gen_matrix(Pattern(16, 0))}

\* the buffer with its last byte changed
Tampered(bytes) ==
  [bytes EXCEPT ![Len(bytes)] = Xor(bytes[Len(bytes)], 1)]

\* what a caller may hand to decrypt after an encryption: the ciphertext, the
\* ciphertext cut short or extended, changed in its last byte, or nothing
Ciphertexts(blocks) ==
  LET c == flatten_blocks(blocks)
  IN  { c,
        << >>,
        SubSeq(c, 1, Len(c) - 1),
        SubSeq(c, 1, Len(c) - 16),
        Append(c, 0),
        Tampered(c) }

None == [tag |-> "None", val |-> << >>, err |-> "", arg |-> 0]

(***************************************************************************)
(* utils: relative_prime.rs and modular_inverse.rs                         *)
(***************************************************************************)
Some(v) == [tag |-> "Some", val |-> v, err |-> "", arg |-> 0]

\* while !b.is_zero() { r = a % b; a = b; b = r }
RECURSIVE gcd(_, _)
gcd(a, b) == IF b = 0 THEN a ELSE gcd(b, a % b)

is_co_prime(a, b) == gcd(a, b) = 1

\* while a > 1 { q = a / m; t = m; m = a % m; a = t; t = y; y = x - q * y; x = t }
RECURSIVE mod_inverse_loop(_, _, _, _)
mod_inverse_loop(a, m, x, y) ==
  IF a > 1
  THEN LET q == a \div m
       IN  mod_inverse_loop(m, a % m, y, x - q * y)
  ELSE x

\* mod_inverse returning x as the loop leaves it
mod_inverse_no_sign_fix(a, m) ==
  IF ~is_co_prime(a, m) THEN None
  ELSE Some(mod_inverse_loop(a, m, 1, 0))

mod_inverse(a, m) ==
  IF ~is_co_prime(a, m) THEN None
  ELSE LET m0 == m
           x  == mod_inverse_loop(a, m, 1, 0)
       IN  Some(IF x < 0 THEN x + m0 ELSE x)

(***************************************************************************)
(* miller-rabin-primality-test/src/lib.rs                                  *)
(***************************************************************************)
\* BigUint::modpow: base^exp mod modulus by squaring
RECURSIVE modpow(_, _, _)
modpow(base, exp, modulus) ==
  IF exp = 0 THEN 1 % modulus
  ELSE LET half == modpow(base, exp \div 2, modulus)
           sq   == (half * half) % modulus
       IN  IF exp % 2 = 1 THEN (sq * (base % modulus)) % modulus ELSE sq

\* the loop of derive_k_and_m
RECURSIVE derive_k_and_m_loop(_, _, _)
derive_k_and_m_loop(p, temp_k, temp_m) ==
  LET exp      == temp_k + 1
      base     == 2 ^ exp
      is_float == (p - 1) % base = 0
  IN  IF is_float
      THEN derive_k_and_m_loop(p, temp_k + 1, (p - 1) \div base)
      ELSE [k |-> temp_k, m |-> temp_m]

derive_k_and_m(p) == derive_k_and_m_loop(p, 0, 0)

\* BigInt::modpow(1, m) leaves a residue in 0..m-1, also for a negative a
is_congruent(m, a, b) == (a % m) = (b % m)

\* the loop of derive_b
RECURSIVE derive_b_loop(_, _, _, _, _, _)
derive_b_loop(a, m, k, p, b, itr) ==
  IF itr < k
  THEN IF itr = 0
       THEN LET b1 == modpow(a, m, p)
                congruent_to_negative_one == is_congruent(p, b1, -1)
                congruent_to_one          == is_congruent(p, b1, 1)
            IN  IF congruent_to_negative_one /\ congruent_to_one
                THEN [n |-> -1, itr |-> itr]
                ELSE derive_b_loop(a, m, k, p, b1, itr + 1)
       ELSE LET b1 == modpow(b, 2, p)
                congruent_to_negative_one == is_congruent(p, b1, -1)
            IN  IF congruent_to_negative_one
                THEN [n |-> -1, itr |-> itr]
                ELSE derive_b_loop(a, m, k, p, b1, itr + 1)
  ELSE [n |-> b, itr |-> k]

derive_b(a, m, k, p) == derive_b_loop(a, m, k, p, 0, 0)

\* MRPT::is_prime
is_prime(p) ==
  LET km == derive_k_and_m(p)
      a  == 2
      r  == derive_b(a, km.m, km.k, p)
  IN  \/ (r.itr = 1 /\ (r.n = 1 \/ r.n = -1))
      \/ (r.itr # 1 /\ r.n = -1)

(***************************************************************************)
(* sha-256/src/preprocess.rs: pad_binary.  A bit string is a sequence of   *)
(* 0 and 1, one element per character of the Rust String.                  *)
(***************************************************************************)
\* the width of usize
USIZE_BITS == 64

\* "0".repeat(n)
zeros(n) == [i \in 1..n |-> 0]

\* format!("{:b}", n)
RECURSIVE format_b(_)
format_b(n) == IF n < 2 THEN << n >> ELSE Append(format_b(n \div 2), n % 2)

\* (448 - b.len() - 1) % 512 in usize: the subtraction goes below zero for
\* len >= 448 and then wraps to 2^USIZE_BITS + 447 - len
pad_k(len) ==
  IF len <= 447 THEN (448 - len - 1) % 512
  ELSE (modpow(2, USIZE_BITS, 512) + ((447 - len) % 512)) % 512

\* pad_binary; with overflow checks compiled in (debug builds, tests) the
\* subtraction panics instead of wrapping
pad_binary(b, overflow_checks) ==
  IF overflow_checks /\ Len(b) > 447
  THEN Panic("attempt to subtract with overflow", << >>)
  ELSE LET padded_binary1  == Append(b, 1)
           k               == pad_k(Len(b))
           padded_binary2  == padded_binary1 \o zeros(k)
           b_len_in_binary == format_b(Len(b))
           padded_b_length == zeros(64 - Len(b_len_in_binary)) \o b_len_in_binary
       IN  Returned(padded_binary2 \o padded_b_length)

(***************************************************************************)
(* The state machine: a caller builds a key schedule, then either runs the *)
(* block primitive on a state (as the tests of aes_ops.rs do) or builds a  *)
(* CBC encryptor and calls encrypt and decrypt on it.                      *)
(***************************************************************************)
\* nothing has been called on the cipher yet
AesIdle ==
  /\ pk = << >>
  /\ ks = None
  /\ iv = << >>
  /\ message = << >>
  /\ encrypted_blocks = None
  /\ cipher_bytes = << >>
  /\ dec_result = None
  /\ decrypt_calls = 0
  /\ plain_state = << >>
  /\ state = << >>

\* no padding call yet
PadIdle ==
  /\ pad_arg = << >>
  /\ buffer = << >>
  /\ strip_arg = << >>
  /\ strip_outcome = "none"

NoProducts == [ab |-> 0, ab_utils |-> 0, ba |-> 0, ac |-> 0, a_bc |-> 0]

\* no galois_mul call yet
GaloisIdle ==
  /\ ga = 0
  /\ gb = 0
  /\ gc = 0
  /\ products = NoProducts

\* no mod_inverse call yet
ModIdle ==
  /\ mod_a = 0
  /\ mod_m = 0
  /\ mod_result = None

\* no MRPT::is_prime call yet
MrIdle ==
  /\ mr_p = 0
  /\ mr_result = None

\* no pad_binary call yet
ShaIdle ==
  /\ binary = << >>
  /\ build = "none"
  /\ padded_binary = None

\* no block call is running
RoundIdle ==
  /\ cur_round = 0
  /\ steps = << >>

\* no state constructor has run
CtorIdle ==
  /\ in_bytes = << >>
  /\ data = << >>
  /\ aes = None

\* no encryptor yet
ChainIdle ==
  /\ cbc_state = None
  /\ chain_blocks = << >>
  /\ block_index = 0
  /\ chain_value = << >>
  /\ chain_out = << >>
  /\ block_calls = 0
  /\ first_blocks = None
  /\ calls = << >>

RestIdle ==
  /\ MrIdle
  /\ ShaIdle
  /\ RoundIdle
  /\ CtorIdle
  /\ ChainIdle

Init ==
  /\ pc = "start"
  /\ AesIdle
  /\ PadIdle
  /\ GaloisIdle
  /\ ModIdle
  /\ RestIdle

\* KeySchedule::new(pk)
NewKeySchedule ==
  /\ pc = "start"
  /\ \E key \in Keys :
       /\ pk' = key
       /\ ks' = KeySchedule_new(key)
       /\ pc' = IF ks'.tag = "Ok" THEN "keyed" ELSE "rejected"
  /\ UNCHANGED << iv, message, encrypted_blocks, cipher_bytes, dec_result,
                  decrypt_calls, plain_state, state >>
  /\ UNCHANGED << padVars, galoisVars, modVars >>
  /\ UNCHANGED restVars

\* AesOps::encrypt(&mut state, &key_schedule)
BlockEncrypt ==
  /\ pc = "keyed"
  /\ \E s \in Blocks :
       /\ plain_state' = s
       /\ state' = AesOps_encrypt(s, ks.val)
  /\ pc' = "block_encrypted"
  /\ UNCHANGED << pk, ks, iv, message, encrypted_blocks, cipher_bytes,
                  dec_result, decrypt_calls >>
  /\ UNCHANGED << padVars, galoisVars, modVars >>
  /\ UNCHANGED restVars

\* AesOps::decrypt(&mut state, &key_schedule)
BlockDecrypt ==
  /\ pc = "block_encrypted"
  /\ state' = AesOps_decrypt(state, ks.val)
  /\ pc' = "block_decrypted"
  /\ UNCHANGED << pk, ks, iv, message, encrypted_blocks, cipher_bytes,
                  dec_result, decrypt_calls, plain_state >>
  /\ UNCHANGED << padVars, galoisVars, modVars >>
  /\ UNCHANGED restVars

\* CbcEncryptor::new(&key_schedule, PkcsPadding); the tests then set the iv
NewCbc ==
  /\ pc = "keyed"
  /\ \E bytes \in IVs : iv' = gen_matrix(bytes)
  /\ pc' = "ready"
  /\ UNCHANGED << pk, ks, message, encrypted_blocks, cipher_bytes, dec_result,
                  decrypt_calls, plain_state, state >>
  /\ UNCHANGED << padVars, galoisVars, modVars >>
  /\ UNCHANGED restVars

\* cbc_ops.encrypt(message)
Encrypt ==
  /\ pc = "ready"
  /\ \E msg \in Messages :
       /\ message' = msg
       /\ encrypted_blocks' = CbcEncryptor_encrypt(iv, ks.val, msg)
  /\ pc' = "encrypted"
  /\ UNCHANGED << pk, ks, iv, cipher_bytes, dec_result, decrypt_calls,
                  plain_state, state >>
  /\ UNCHANGED << padVars, galoisVars, modVars >>
  /\ UNCHANGED restVars

\* cbc_ops.decrypt(cipher_bytes)
Decrypt ==
  /\ pc = "encrypted"
  /\ \E bytes \in Ciphertexts(encrypted_blocks.val) :
       LET r == CbcEncryptor_decrypt(iv, ks.val, bytes)
       IN  /\ cipher_bytes' = bytes
           /\ dec_result' = r.result
           /\ decrypt_calls' = r.calls
  /\ pc' = "decrypted"
  /\ UNCHANGED << pk, ks, iv, message, encrypted_blocks, plain_state, state >>
  /\ UNCHANGED << padVars, galoisVars, modVars >>
  /\ UNCHANGED restVars

Next ==
  \/ NewKeySchedule
  \/ BlockEncrypt
  \/ BlockDecrypt
  \/ NewCbc
  \/ Encrypt
  \/ Decrypt

Spec == Init /\ [][Next]_vars

(***************************************************************************)
(* The padding calls, as the tests of padding.rs make them: pad_input on a *)
(* buffer and strip_output on the padded buffer, or strip_output on a      *)
(* buffer that pad_input has not produced.                                 *)
(***************************************************************************)
\* len bytes, all v
Fill(len, v) == [i \in 1..len |-> v]

\* len bytes, all fill but the last run bytes, which are v
Trailing(len, fill, v, run) ==
  [i \in 1..len |-> IF i > len - run THEN v ELSE fill]

PadSteps == {17, 1}
PadFills == {10, 16, 1}
PadInputs ==
  {Pattern(len, step) : len \in 0..MaxMsgLen, step \in PadSteps}
    \cup {Fill(len, v) : len \in 0..MaxMsgLen, v \in PadFills}

LastBytes == {0, 1, 4, 16, 17}
Runs == {1, 3, 4, 10, 16}
RawBuffers ==
  {Trailing(len, 6, v, run) : len \in 0..MaxMsgLen, v \in LastBytes, run \in Runs}
    \cup {Fill(len, 1) : len \in 0..MaxMsgLen}

InitPad ==
  /\ pc = "pad_start"
  /\ AesIdle
  /\ PadIdle
  /\ GaloisIdle
  /\ ModIdle
  /\ RestIdle

\* PkcsPadding::pad_input(&mut input)
PadInput ==
  /\ pc = "pad_start"
  /\ \E x \in PadInputs :
       /\ pad_arg' = x
       /\ buffer' = pad_input(x)
  /\ pc' = "padded"
  /\ UNCHANGED << strip_arg, strip_outcome >>
  /\ UNCHANGED << aesVars, galoisVars, modVars >>
  /\ UNCHANGED restVars

\* PkcsPadding::strip_output(&mut input) on the buffer pad_input has padded
StripPadded ==
  /\ pc = "padded"
  /\ LET r == strip_output(buffer)
     IN  /\ strip_arg' = buffer
         /\ buffer' = r.buffer
         /\ strip_outcome' = r.outcome
  /\ pc' = "stripped"
  /\ UNCHANGED pad_arg
  /\ UNCHANGED << aesVars, galoisVars, modVars >>
  /\ UNCHANGED restVars

\* PkcsPadding::strip_output(&mut output) on any buffer
StripRaw ==
  /\ pc = "pad_start"
  /\ \E b \in RawBuffers :
       LET r == strip_output(b)
       IN  /\ strip_arg' = b
           /\ buffer' = r.buffer
           /\ strip_outcome' = r.outcome
  /\ pc' = "stripped_raw"
  /\ UNCHANGED pad_arg
  /\ UNCHANGED << aesVars, galoisVars, modVars >>
  /\ UNCHANGED restVars

NextPad ==
  \/ PadInput
  \/ StripPadded
  \/ StripRaw

SpecPad == InitPad /\ [][NextPad]_vars

(***************************************************************************)
(* MixColumns followed by InvMixColumns on a state, as                     *)
(* one_round_decryption_test does.                                         *)
(***************************************************************************)
\* 16 bytes, byte i (0-based) being step * i + offset mod 256
Shifted(step, offset) == [i \in 1..16 |-> (step * (i - 1) + offset) % 256]

\* the state one_round_decryption_test mixes
MixTestState ==
  << << 189, 110, 124, 61 >>, << 242, 181, 119, 158 >>,
     << 11, 97, 33, 110 >>, << 139, 16, 182, 137 >> >>

MixSteps == {0, 1, 5, 17, 29, 113}
MixOffsets == {0, 1, 77, 128, 200, 255}
MixStates ==
  {gen_matrix(Shifted(step, offset)) : step \in MixSteps, offset \in MixOffsets}
    \cup {MixTestState}

InitMix ==
  /\ pc = "mix_start"
  /\ pk = << >>
  /\ ks = None
  /\ iv = << >>
  /\ message = << >>
  /\ encrypted_blocks = None
  /\ cipher_bytes = << >>
  /\ dec_result = None
  /\ decrypt_calls = 0
  /\ \E s \in MixStates :
       /\ plain_state = s
       /\ state = s
  /\ PadIdle
  /\ GaloisIdle
  /\ ModIdle
  /\ RestIdle

\* AesOps::mix_columns(&mut state, TRANSFORMATION_MATRIX)
MixForward ==
  /\ pc = "mix_start"
  /\ state' = mix_columns(state, TRANSFORMATION_MATRIX)
  /\ pc' = "mixed"
  /\ UNCHANGED << pk, ks, iv, message, encrypted_blocks, cipher_bytes,
                  dec_result, decrypt_calls, plain_state >>
  /\ UNCHANGED << padVars, galoisVars, modVars >>
  /\ UNCHANGED restVars

\* AesOps::mix_columns(&mut state, INVERSE_TRANSFORMATION_MATRIX)
MixInverse ==
  /\ pc = "mixed"
  /\ state' = mix_columns(state, INVERSE_TRANSFORMATION_MATRIX)
  /\ pc' = "unmixed"
  /\ UNCHANGED << pk, ks, iv, message, encrypted_blocks, cipher_bytes,
                  dec_result, decrypt_calls, plain_state >>
  /\ UNCHANGED << padVars, galoisVars, modVars >>
  /\ UNCHANGED restVars

NextMix ==
  \/ MixForward
  \/ MixInverse

SpecMix == InitMix /\ [][NextMix]_vars

(***************************************************************************)
(* The calls of galois_mul.                                                *)
(***************************************************************************)
Byte == 0..255

GaloisSample == {0, 1, 2, 3, 6, 9, 11, 13, 14, 15, 27, 87, 128, 131, 254, 255}

\* every pair of bytes
InitGalois ==
  /\ pc = "galois_start"
  /\ ga \in Byte
  /\ gb \in Byte
  /\ gc = 0
  /\ products = NoProducts
  /\ AesIdle
  /\ PadIdle
  /\ ModIdle
  /\ RestIdle

\* galois_mul(a, b) of util.rs and of utils.rs
Multiply ==
  /\ pc = "galois_start"
  /\ products' = [products EXCEPT !.ab = galois_mul(ga, gb),
                                  !.ab_utils = utils_galois_mul(ga, gb)]
  /\ pc' = "multiplied"
  /\ UNCHANGED << ga, gb, gc >>
  /\ UNCHANGED << aesVars, padVars, modVars >>
  /\ UNCHANGED restVars

NextGalois == Multiply

SpecGalois == InitGalois /\ [][NextGalois]_vars

\* triples of bytes
InitGaloisLaws ==
  /\ pc = "laws_start"
  /\ ga \in GaloisSample
  /\ gb \in GaloisSample
  /\ gc \in GaloisSample
  /\ products = NoProducts
  /\ AesIdle
  /\ PadIdle
  /\ ModIdle
  /\ RestIdle

\* galois_mul(a, b), galois_mul(b, a), galois_mul(a, c), galois_mul(a, b ^ c)
MultiplyLaws ==
  /\ pc = "laws_start"
  /\ products' = [products EXCEPT !.ab = galois_mul(ga, gb),
                                  !.ba = galois_mul(gb, ga),
                                  !.ac = galois_mul(ga, gc),
                                  !.a_bc = galois_mul(ga, Xor(gb, gc))]
  /\ pc' = "laws_multiplied"
  /\ UNCHANGED << ga, gb, gc >>
  /\ UNCHANGED << aesVars, padVars, modVars >>
  /\ UNCHANGED restVars

NextGaloisLaws == MultiplyLaws

SpecGaloisLaws == InitGaloisLaws /\ [][NextGaloisLaws]_vars

\* the key schedule alone
NextKeys == NewKeySchedule

SpecKeys == Init /\ [][NextKeys]_vars

\* the key schedule and the block primitive
NextBlock ==
  \/ NewKeySchedule
  \/ BlockEncrypt
  \/ BlockDecrypt

SpecBlock == Init /\ [][NextBlock]_vars

(***************************************************************************)
(* Properties.                                                             *)
(***************************************************************************)
\* the ciphertext bytes of the last encrypt
EncryptedBytes == flatten_blocks(encrypted_blocks.val)

\* the 16-byte blocks of a buffer whose length is a multiple of 16
BlockOf(bytes, i) == gen_matrix(SubSeq(bytes, 16 * i + 1, 16 * i + 16))

\* C1: decrypting, with the same key schedule and iv, the blocks encrypt
\* returned for a message yields exactly that message.
C1_RoundTrip ==
  (pc = "decrypted" /\ cipher_bytes = EncryptedBytes)
    => dec_result = Ok(message)

\* C2: for every block index i of the padded plaintext, the i-th block
\* encrypt returns is AesOps::encrypt(P[i] XOR chain), the chain being the iv
\* for i = 0 and the previous ciphertext block C[i-1] for i >= 1.
C2_EncryptChaining ==
  pc = "encrypted" =>
    LET padded == pad_input(message)
        n      == Len(padded) \div 16
        C      == encrypted_blocks.val
    IN  /\ Len(C) = n
        /\ \A i \in 0..(n - 1) :
             C[i + 1] = AesOps_encrypt(
                          xor_matrices(BlockOf(padded, i),
                                       IF i = 0 THEN iv ELSE C[i]),
                          ks.val)

\* C3: for a ciphertext of n blocks decrypt returns 16 * n bytes, byte k of
\* block i being position [k / 4][k % 4] of AesOps::decrypt(C[i]) XOR chain,
\* the chain being the iv for i = 0 and the ciphertext block C[i-1] otherwise.
C3_DecryptChaining ==
  (pc = "decrypted" /\ dec_result.tag = "Ok") =>
    LET n == Len(cipher_bytes) \div 16
    IN  /\ Len(dec_result.val) = 16 * n
        /\ \A i \in 0..(n - 1) :
             LET chain == IF i = 0 THEN iv ELSE BlockOf(cipher_bytes, i - 1)
                 P     == xor_matrices(
                            AesOps_decrypt(BlockOf(cipher_bytes, i), ks.val),
                            chain)
             IN  \A k \in 0..15 :
                   dec_result.val[16 * i + k + 1] = P[(k \div 4) + 1][(k % 4) + 1]

C3_Witness ==
  /\ pc = "decrypted"
  /\ dec_result.tag = "Ok"
  /\ Len(cipher_bytes) = 48
  /\ cipher_bytes = EncryptedBytes

\* C4: decrypt of the ciphertext of an m-byte message returns exactly m
\* bytes, the padding being stripped.
C4_PaddingStripped ==
  (pc = "decrypted" /\ cipher_bytes = EncryptedBytes /\ dec_result.tag = "Ok")
    => Len(dec_result.val) = Len(message)

\* the buffer ends in valid PKCS#7 padding
ValidPadding(buf) ==
  /\ Len(buf) > 0
  /\ LET padLen == buf[Len(buf)]
     IN  /\ padLen >= 1
         /\ padLen <= 16
         /\ padLen <= Len(buf)
         /\ \A j \in (Len(buf) - padLen + 1)..Len(buf) : buf[j] = padLen

\* the concatenated plaintext blocks the chaining of decrypt produces
DecryptedPlain(bytes) ==
  flatten_blocks(
    cbc_decrypt_loop(chunk_bytes_into_4x4_matrices(bytes), 1, iv, ks.val, << >>))

\* C5: decrypt returns an error, and no plaintext, when the ciphertext is
\* empty or the decrypted plaintext does not end in valid PKCS#7 padding.
C5_BadPaddingRejected ==
  (/\ pc = "decrypted"
   /\ Len(cipher_bytes) % 16 = 0
   /\ \/ cipher_bytes = << >>
      \/ ~ValidPadding(DecryptedPlain(cipher_bytes)))
    => (dec_result.tag = "Err" /\ dec_result.val = << >>)

\* C6: a ciphertext whose length is not a multiple of 16 is rejected with
\* InvalidCipherText, without a single call of AesOps::decrypt.
C6_BadLengthRejected ==
  (pc = "decrypted" /\ Len(cipher_bytes) % 16 # 0)
    => (/\ dec_result = Err("InvalidCipherText", 0)
        /\ decrypt_calls = 0)

C6_Witness ==
  /\ pc = "decrypted"
  /\ Len(cipher_bytes) = 33
  /\ dec_result.tag = "Err"

\* C7: KeySchedule::new succeeds for every key of 16, 24 or 32 bytes, with
\* 10, 12 or 14 rounds and 44, 52 or 60 words.
C7_KeySizesAccepted ==
  (pc # "start" /\ Len(pk) \in {16, 24, 32}) =>
    /\ ks.tag = "Ok"
    /\ ks.val.rounds = (Len(pk) \div 4) + 6
    /\ Len(ks.val.keys) = 4 * (ks.val.rounds + 1)

Double(a) == IF a >= 128 THEN Xor((2 * a) % 256, 27) ELSE 2 * a

\* rc_1 = 1, rc_j = 2 * rc_(j-1) in GF(2^8)
RECURSIVE rc(_)
rc(j) == IF j = 1 THEN 1 ELSE Double(rc(j - 1))

RotWord(w) == << w[2], w[3], w[4], w[1] >>
SubWord(w) == << AES_S_BOX[w[1] + 1], AES_S_BOX[w[2] + 1],
                 AES_S_BOX[w[3] + 1], AES_S_BOX[w[4] + 1] >>

\* the 44 words test_key_expansion asserts for the key [0..15]
ExpectedTestWords ==
  << << 0, 1, 2, 3 >>, << 4, 5, 6, 7 >>, << 8, 9, 10, 11 >>,
     << 12, 13, 14, 15 >>, << 214, 170, 116, 253 >>, << 210, 175, 114, 250 >>,
     << 218, 166, 120, 241 >>, << 214, 171, 118, 254 >>, << 182, 146, 207, 11 >>,
     << 100, 61, 189, 241 >>, << 190, 155, 197, 0 >>, << 104, 48, 179, 254 >>,
     << 182, 255, 116, 78 >>, << 210, 194, 201, 191 >>, << 108, 89, 12, 191 >>,
     << 4, 105, 191, 65 >>, << 71, 247, 247, 188 >>, << 149, 53, 62, 3 >>,
     << 249, 108, 50, 188 >>, << 253, 5, 141, 253 >>, << 60, 170, 163, 232 >>,
     << 169, 159, 157, 235 >>, << 80, 243, 175, 87 >>, << 173, 246, 34, 170 >>,
     << 94, 57, 15, 125 >>, << 247, 166, 146, 150 >>, << 167, 85, 61, 193 >>,
     << 10, 163, 31, 107 >>, << 20, 249, 112, 26 >>, << 227, 95, 226, 140 >>,
     << 68, 10, 223, 77 >>, << 78, 169, 192, 38 >>, << 71, 67, 135, 53 >>,
     << 164, 28, 101, 185 >>, << 224, 22, 186, 244 >>, << 174, 191, 122, 210 >>,
     << 84, 153, 50, 209 >>, << 240, 133, 87, 104 >>, << 16, 147, 237, 156 >>,
     << 190, 44, 151, 78 >>, << 19, 17, 29, 127 >>, << 227, 148, 74, 23 >>,
     << 243, 7, 167, 139 >>, << 77, 43, 48, 197 >> >>

\* C9: in every schedule KeySchedule::new returns, with N = key length / 4,
\* the first N words are the key bytes in order and every later word is
\* word[i-N] XOR temp, temp being SubWord(RotWord(word[i-1])) XOR [rc,0,0,0]
\* when i mod N = 0 and word[i-1] otherwise; for the key [0..15] the words
\* are those of test_key_expansion and round_key(0) is the key itself.
C9_KeyRecurrence ==
  (pc # "start" /\ ks.tag = "Ok") =>
    LET N == Len(pk) \div 4
        w == ks.val.keys
    IN  /\ \A i \in 0..(N - 1) :
             w[i + 1] = << pk[4 * i + 1], pk[4 * i + 2], pk[4 * i + 3], pk[4 * i + 4] >>
        /\ \A i \in N..(Len(w) - 1) :
             LET temp == IF i % N = 0
                         THEN xor_array(SubWord(RotWord(w[i])),
                                        << rc(i \div N), 0, 0, 0 >>)
                         ELSE w[i]
             IN  w[i + 1] = xor_array(w[i + 1 - N], temp)
        /\ pk = TestKey =>
             /\ w = ExpectedTestWords
             /\ round_key(ks.val, 0) =
                  << << 0, 1, 2, 3 >>, << 4, 5, 6, 7 >>,
                     << 8, 9, 10, 11 >>, << 12, 13, 14, 15 >> >>

C9_Witness ==
  /\ pc = "keyed"
  /\ ks.tag = "Ok"
  /\ pk = TestKey
  /\ Len(ks.val.keys) > 4

\* C10: AesOps::encrypt of the state of plaintext [0,17,...,255] under the
\* schedule of key [0..15] leaves the state [105,196,224,216,...,197,90].
C10_CipherVector ==
  (pc = "block_encrypted" /\ pk = TestKey /\ plain_state = gen_matrix(INPUT))
    => block_bytes(state) =
         << 105, 196, 224, 216, 106, 123, 4, 48,
            216, 205, 183, 128, 112, 180, 197, 90 >>

C10_Witness ==
  /\ pc = "block_encrypted"
  /\ pk = TestKey
  /\ plain_state = gen_matrix(INPUT)
  /\ state # plain_state

\* C11: AesOps::decrypt applied to the result of AesOps::encrypt, with the
\* same key schedule, restores the state AesOps::encrypt was given.
C11_BlockRoundTrip ==
  pc = "block_decrypted" => state = plain_state

C11_Witness ==
  /\ pc = "block_decrypted"
  /\ plain_state = gen_matrix(INPUT)
  /\ state = plain_state

\* C12: the first block encrypt returns is AesOps::encrypt(P[0] XOR iv), P[0]
\* being the first 16 bytes of the padded message; for key [0..15], the iv of
\* test_cbc_encryption and the plaintext [0,17,...,255] it is
\* [59,67,136,134,...,130,178].
C12_FirstBlock ==
  pc = "encrypted" =>
    LET first == encrypted_blocks.val[1]
    IN  /\ first = AesOps_encrypt(
                     xor_matrices(BlockOf(pad_input(message), 0), iv), ks.val)
        /\ (pk = TestKey /\ iv = gen_matrix(IV) /\ message = INPUT) =>
             block_bytes(first) =
               << 59, 67, 136, 134, 79, 78, 189, 114,
                  137, 150, 207, 148, 186, 117, 130, 178 >>

C12_Witness ==
  /\ pc = "encrypted"
  /\ pk = TestKey
  /\ iv = gen_matrix(IV)
  /\ message = INPUT
  /\ Len(encrypted_blocks.val) = 2

\* C13: pad_input on a buffer of length L leaves the first L bytes as they
\* are and appends padLen = 16 - (L mod 16) bytes, each equal to padLen; it
\* appends between 1 and 16 bytes and the result is a whole number of blocks.
C13_PadInput ==
  pc = "padded" =>
    LET L      == Len(pad_arg)
        padLen == 16 - (L % 16)
    IN  /\ padLen \in 1..16
        /\ Len(buffer) = L + padLen
        /\ Len(buffer) % 16 = 0
        /\ \A j \in 1..L : buffer[j] = pad_arg[j]
        /\ \A j \in (L + 1)..(L + padLen) : buffer[j] = padLen

C13_Witness ==
  /\ pc = "padded"
  /\ Len(pad_arg) = 16
  /\ Len(buffer) = 32

\* C14: strip_output applied to pad_input(x) succeeds and yields exactly x.
C14_PadRoundTrip ==
  pc = "stripped" =>
    /\ strip_outcome = "returned"
    /\ buffer = pad_arg

C14_Witness ==
  /\ pc = "stripped"
  /\ strip_outcome = "returned"
  /\ Len(pad_arg) = 16
  /\ Len(strip_arg) = 32

InvalidSizeFailure == "Invalid output size: length is not a multiple of 16."
EmptyBufferFailure == "Invalid padding: empty output buffer."
InvalidPaddingSizeFailure == "Invalid padding: incorrect padding size."
InvalidPaddingBytesFailure == "Invalid padding: incorrect padding bytes."

\* C15: strip_output ends by the first failing check in this order: length not
\* a multiple of 16, empty buffer, last byte padLen 0 or above 16, last padLen
\* bytes not all padLen; otherwise it succeeds and removes exactly padLen bytes.
C15_StripOrder ==
  pc \in {"stripped", "stripped_raw"} =>
    LET b      == strip_arg
        padLen == b[Len(b)]
    IN  IF Len(b) % 16 # 0 THEN strip_outcome = InvalidSizeFailure
        ELSE IF Len(b) = 0 THEN strip_outcome = EmptyBufferFailure
        ELSE IF padLen = 0 \/ padLen > 16
             THEN strip_outcome = InvalidPaddingSizeFailure
        ELSE IF \E j \in (Len(b) - padLen + 1)..Len(b) : b[j] # padLen
             THEN strip_outcome = InvalidPaddingBytesFailure
        ELSE /\ strip_outcome = "returned"
             /\ buffer = SubSeq(b, 1, Len(b) - padLen)

C15_Witness ==
  /\ pc = "stripped_raw"
  /\ Len(strip_arg) = 15
  /\ strip_arg[15] = 17
  /\ strip_outcome = InvalidSizeFailure

\* C16: strip_output reports every failure to its caller as a returned
\* value; no failure path panics.
C16_FailuresAreValues ==
  pc \in {"stripped", "stripped_raw"} => strip_outcome = "returned"

(***************************************************************************)
(* The calls of mod_inverse.                                               *)
(***************************************************************************)
MaxModA == 30
MaxModM == 30

InitMod ==
  /\ pc = "mod_start"
  /\ mod_a \in 1..MaxModA
  /\ mod_m \in 2..MaxModM
  /\ mod_result = None
  /\ AesIdle
  /\ PadIdle
  /\ GaloisIdle
  /\ RestIdle

\* mod_inverse(a, m)
ModInverse ==
  /\ pc = "mod_start"
  /\ mod_result' = mod_inverse(mod_a, mod_m)
  /\ pc' = "mod_done"
  /\ UNCHANGED << mod_a, mod_m >>
  /\ UNCHANGED << aesVars, padVars, galoisVars >>
  /\ UNCHANGED restVars

NextMod == ModInverse

SpecMod == InitMod /\ [][NextMod]_vars

\* the greatest common divisor, by its definition
Divides(d, n) == n % d = 0
GreatestCommonDivisor(a, m) ==
  CHOOSE d \in 1..a : /\ Divides(d, a) /\ Divides(d, m)
                      /\ \A e \in 1..a : (Divides(e, a) /\ Divides(e, m)) => e <= d

\* C17: mix_columns with INVERSE_TRANSFORMATION_MATRIX applied after
\* mix_columns with TRANSFORMATION_MATRIX returns the original state.
C17_MixInverse ==
  pc = "unmixed" => state = plain_state

C17_Witness ==
  /\ pc = "unmixed"
  /\ plain_state = MixTestState
  /\ state = MixTestState

\* x XOR y on natural numbers of any width
RECURSIVE XorN(_, _)
XorN(x, y) ==
  IF x = 0 THEN y
  ELSE IF y = 0 THEN x
  ELSE ((x + y) % 2) + 2 * XorN(x \div 2, y \div 2)

\* the product of a and b as polynomials over GF(2), bits i.. of b
RECURSIVE PolyMul(_, _, _)
PolyMul(a, b, i) ==
  IF i = 8 THEN 0
  ELSE XorN(IF (b \div (2 ^ i)) % 2 = 1 THEN a * (2 ^ i) ELSE 0,
            PolyMul(a, b, i + 1))

\* x reduced modulo x^8 + x^4 + x^3 + x + 1 (283), from bit k down to bit 8
RECURSIVE PolyReduce(_, _)
PolyReduce(x, k) ==
  IF k < 8 THEN x
  ELSE PolyReduce(IF (x \div (2 ^ k)) % 2 = 1 THEN XorN(x, 283 * (2 ^ (k - 8))) ELSE x,
                  k - 1)

PolyMulMod(a, b) == PolyReduce(PolyMul(a, b, 0), 14)

\* C18: galois_mul(a, b) is the product of a and b as polynomials over GF(2)
\* modulo x^8 + x^4 + x^3 + x + 1, galois_mul(15, 6) = 34, and the copies of
\* util.rs and utils.rs return the same value.
C18_GaloisProduct ==
  pc = "multiplied" =>
    /\ products.ab = PolyMulMod(ga, gb)
    /\ products.ab_utils = products.ab
    /\ (ga = 15 /\ gb = 6) => products.ab = 34

C18_Witness ==
  /\ pc = "multiplied"
  /\ ga = 15
  /\ gb = 6
  /\ products.ab = 34

\* C19: galois_mul(a, b) = galois_mul(b, a) and
\* galois_mul(a, b XOR c) = galois_mul(a, b) XOR galois_mul(a, c).
C19_GaloisLaws ==
  pc = "laws_multiplied" =>
    /\ products.ab = products.ba
    /\ products.a_bc = Xor(products.ab, products.ac)

C19_Witness ==
  /\ pc = "laws_multiplied"
  /\ ga = 128
  /\ gb = 1
  /\ gc = 255
  /\ products.ab = 128

\* C20: for a >= 1 and m >= 2, mod_inverse(a, m) returns Some(x) with
\* 0 <= x < m and (a * x) mod m = 1 when gcd(a, m) = 1, and None when
\* gcd(a, m) # 1; mod_inverse(3, 11) = Some(4).
C20_ModInverse ==
  pc = "mod_done" =>
    /\ GreatestCommonDivisor(mod_a, mod_m) = 1 =>
         /\ mod_result.tag = "Some"
         /\ 0 <= mod_result.val
         /\ mod_result.val < mod_m
         /\ (mod_a * mod_result.val) % mod_m = 1
    /\ GreatestCommonDivisor(mod_a, mod_m) # 1 => mod_result = None
    /\ (mod_a = 3 /\ mod_m = 11) => mod_result = Some(4)

C20_Witness ==
  /\ pc = "mod_done"
  /\ mod_a = 3
  /\ mod_m = 11
  /\ mod_result = Some(4)

(***************************************************************************)
(* AesOps::encrypt and AesOps::decrypt taken one step at a time: each      *)
(* action is one call the function makes, and steps logs the calls.        *)
(***************************************************************************)
\* let rounds = keys.rounds; add_round_key(state, keys.round_key(0))
EncryptBegin ==
  /\ pc = "keyed"
  /\ \E s \in Blocks :
       /\ plain_state' = s
       /\ state' = add_round_key(s, round_key(ks.val, 0))
  /\ steps' = << Step("AddRoundKey", 0) >>
  /\ cur_round' = 1
  /\ pc' = "enc_loop"
  /\ UNCHANGED << pk, ks, iv, message, encrypted_blocks, cipher_bytes,
                  dec_result, decrypt_calls >>
  /\ UNCHANGED << padVars, galoisVars, modVars >>
  /\ UNCHANGED << mrVars, shaVars, ctorVars, chainVars >>

\* a step that changes the state and moves on, leaving the round as it is
BlockStep(from, to, op, new_state) ==
  /\ pc = from
  /\ state' = new_state
  /\ steps' = Append(steps, op)
  /\ pc' = to
  /\ UNCHANGED << pk, ks, iv, message, encrypted_blocks, cipher_bytes,
                  dec_result, decrypt_calls, plain_state >>
  /\ UNCHANGED << padVars, galoisVars, modVars >>
  /\ UNCHANGED << mrVars, shaVars, ctorVars, chainVars >>

\* sub_bytes(state, AES_S_BOX) in the loop
EncLoopSubBytes ==
  /\ pc = "enc_loop"
  /\ main_round(cur_round, ks.val.rounds)
  /\ BlockStep("enc_loop", "enc_shift", Step("SubBytes", -1),
               sub_bytes(state, AES_S_BOX))
  /\ UNCHANGED cur_round

\* shift_rows(state) in the loop
EncLoopShiftRows ==
  /\ BlockStep("enc_shift", "enc_mix", Step("ShiftRows", -1), shift_rows(state))
  /\ UNCHANGED cur_round

\* mix_columns(state, TRANSFORMATION_MATRIX)
EncLoopMixColumns ==
  /\ BlockStep("enc_mix", "enc_add", Step("MixColumns", -1),
               mix_columns(state, TRANSFORMATION_MATRIX))
  /\ UNCHANGED cur_round

\* add_round_key(state, keys.round_key(round)), the end of the loop body
EncLoopAddRoundKey ==
  /\ BlockStep("enc_add", "enc_loop", Step("AddRoundKey", cur_round),
               add_round_key(state, round_key(ks.val, cur_round)))
  /\ cur_round' = cur_round + 1

\* sub_bytes(state, AES_S_BOX) after the loop
EncFinalSubBytes ==
  /\ pc = "enc_loop"
  /\ ~main_round(cur_round, ks.val.rounds)
  /\ BlockStep("enc_loop", "enc_final_shift", Step("SubBytes", -1),
               sub_bytes(state, AES_S_BOX))
  /\ UNCHANGED cur_round

\* shift_rows(state) after the loop
EncFinalShiftRows ==
  /\ BlockStep("enc_final_shift", "enc_final_add", Step("ShiftRows", -1),
               shift_rows(state))
  /\ UNCHANGED cur_round

\* add_round_key(state, keys.round_key(rounds))
EncFinalAddRoundKey ==
  /\ BlockStep("enc_final_add", "enc_done", Step("AddRoundKey", ks.val.rounds),
               add_round_key(state, round_key(ks.val, ks.val.rounds)))
  /\ UNCHANGED cur_round

\* AesOps::decrypt on the encrypted state:
\* add_round_key(cipher_bytes, keys.round_key(rounds))
DecryptBegin ==
  /\ pc = "enc_done"
  /\ state' = add_round_key(state, round_key(ks.val, ks.val.rounds))
  /\ steps' = << Step("AddRoundKey", ks.val.rounds) >>
  /\ cur_round' = ks.val.rounds - 1
  /\ pc' = "dec_loop"
  /\ UNCHANGED << pk, ks, iv, message, encrypted_blocks, cipher_bytes,
                  dec_result, decrypt_calls, plain_state >>
  /\ UNCHANGED << padVars, galoisVars, modVars >>
  /\ UNCHANGED << mrVars, shaVars, ctorVars, chainVars >>

\* inv_shift_rows(cipher_bytes) in the loop
DecLoopInvShiftRows ==
  /\ pc = "dec_loop"
  /\ reverse_round(cur_round)
  /\ BlockStep("dec_loop", "dec_sub", Step("InvShiftRows", -1),
               inv_shift_rows(state))
  /\ UNCHANGED cur_round

\* sub_bytes(cipher_bytes, AES_INVERSE_S_BOX) in the loop
DecLoopInvSubBytes ==
  /\ BlockStep("dec_sub", "dec_add", Step("InvSubBytes", -1),
               sub_bytes(state, AES_INVERSE_S_BOX))
  /\ UNCHANGED cur_round

\* add_round_key(cipher_bytes, keys.round_key(round))
DecLoopAddRoundKey ==
  /\ BlockStep("dec_add", "dec_mix", Step("AddRoundKey", cur_round),
               add_round_key(state, round_key(ks.val, cur_round)))
  /\ UNCHANGED cur_round

\* mix_columns(cipher_bytes, INVERSE_TRANSFORMATION_MATRIX), the end of the
\* loop body
DecLoopInvMixColumns ==
  /\ BlockStep("dec_mix", "dec_loop", Step("InvMixColumns", -1),
               mix_columns(state, INVERSE_TRANSFORMATION_MATRIX))
  /\ cur_round' = cur_round - 1

\* inv_shift_rows(cipher_bytes) after the loop
DecFinalInvShiftRows ==
  /\ pc = "dec_loop"
  /\ ~reverse_round(cur_round)
  /\ BlockStep("dec_loop", "dec_final_sub", Step("InvShiftRows", -1),
               inv_shift_rows(state))
  /\ UNCHANGED cur_round

\* sub_bytes(cipher_bytes, AES_INVERSE_S_BOX) after the loop
DecFinalInvSubBytes ==
  /\ BlockStep("dec_final_sub", "dec_final_add", Step("InvSubBytes", -1),
               sub_bytes(state, AES_INVERSE_S_BOX))
  /\ UNCHANGED cur_round

\* add_round_key(cipher_bytes, keys.round_key(0))
DecFinalAddRoundKey ==
  /\ BlockStep("dec_final_add", "dec_done", Step("AddRoundKey", 0),
               add_round_key(state, round_key(ks.val, 0)))
  /\ UNCHANGED cur_round

NextRounds ==
  \/ NewKeySchedule
  \/ EncryptBegin
  \/ EncLoopSubBytes
  \/ EncLoopShiftRows
  \/ EncLoopMixColumns
  \/ EncLoopAddRoundKey
  \/ EncFinalSubBytes
  \/ EncFinalShiftRows
  \/ EncFinalAddRoundKey
  \/ DecryptBegin
  \/ DecLoopInvShiftRows
  \/ DecLoopInvSubBytes
  \/ DecLoopAddRoundKey
  \/ DecLoopInvMixColumns
  \/ DecFinalInvShiftRows
  \/ DecFinalInvSubBytes
  \/ DecFinalAddRoundKey

SpecRounds == Init /\ [][NextRounds]_vars

(***************************************************************************)
(* shift_rows and inv_shift_rows on a state.                               *)
(***************************************************************************)
InitShift ==
  /\ pc = "shift_start"
  /\ pk = << >>
  /\ ks = None
  /\ iv = << >>
  /\ message = << >>
  /\ encrypted_blocks = None
  /\ cipher_bytes = << >>
  /\ dec_result = None
  /\ decrypt_calls = 0
  /\ \E s \in MixStates :
       /\ plain_state = s
       /\ state = s
  /\ PadIdle
  /\ GaloisIdle
  /\ ModIdle
  /\ RestIdle

\* AesOps::shift_rows(&mut state)
ShiftRows ==
  /\ pc = "shift_start"
  /\ state' = shift_rows(state)
  /\ pc' = "shifted"
  /\ UNCHANGED << pk, ks, iv, message, encrypted_blocks, cipher_bytes,
                  dec_result, decrypt_calls, plain_state >>
  /\ UNCHANGED << padVars, galoisVars, modVars >>
  /\ UNCHANGED restVars

\* AesOps::inv_shift_rows(&mut state), on a fresh state or after shift_rows
InvShiftRows ==
  /\ pc \in {"shift_start", "shifted"}
  /\ state' = inv_shift_rows(state)
  /\ pc' = IF pc = "shifted" THEN "unshifted" ELSE "inv_shifted"
  /\ UNCHANGED << pk, ks, iv, message, encrypted_blocks, cipher_bytes,
                  dec_result, decrypt_calls, plain_state >>
  /\ UNCHANGED << padVars, galoisVars, modVars >>
  /\ UNCHANGED restVars

NextShift ==
  \/ ShiftRows
  \/ InvShiftRows

SpecShift == InitShift /\ [][NextShift]_vars

(***************************************************************************)
(* The constructors of a state: util::gen_matrix and State::new.           *)
(***************************************************************************)
LayoutInputs == {Shifted(step, offset) : step \in MixSteps, offset \in MixOffsets}

InitLayout ==
  /\ pc = "layout_start"
  /\ in_bytes \in LayoutInputs
  /\ data = << >>
  /\ aes = None
  /\ AesIdle
  /\ PadIdle
  /\ GaloisIdle
  /\ ModIdle
  /\ MrIdle
  /\ ShaIdle
  /\ RoundIdle
  /\ ChainIdle

\* gen_matrix(&bytes)
GenMatrix ==
  /\ pc = "layout_start"
  /\ state' = gen_matrix(in_bytes)
  /\ pc' = "gen_done"
  /\ UNCHANGED << pk, ks, iv, message, encrypted_blocks, cipher_bytes,
                  dec_result, decrypt_calls, plain_state >>
  /\ UNCHANGED << padVars, galoisVars, modVars >>
  /\ UNCHANGED restVars

\* State::new(&bytes)
StateNew ==
  /\ pc = "layout_start"
  /\ data' = State_new(in_bytes)
  /\ pc' = "new_done"
  /\ UNCHANGED << in_bytes, aes >>
  /\ UNCHANGED << aesVars, padVars, galoisVars, modVars >>
  /\ UNCHANGED << mrVars, shaVars, roundVars, chainVars >>

NextLayout ==
  \/ GenMatrix
  \/ StateNew

SpecLayout == InitLayout /\ [][NextLayout]_vars

(***************************************************************************)
(* The calls of AES::new.                                                  *)
(***************************************************************************)
BlockLengths == {0, 12, 15, 16, 17, 32}
AesBlocks == {Pattern(len, 17) : len \in BlockLengths}

InitAes ==
  /\ pc = "aes_start"
  /\ pk \in Keys
  /\ in_bytes \in AesBlocks
  /\ data = << >>
  /\ aes = None
  /\ ks = None
  /\ iv = << >>
  /\ message = << >>
  /\ encrypted_blocks = None
  /\ cipher_bytes = << >>
  /\ dec_result = None
  /\ decrypt_calls = 0
  /\ plain_state = << >>
  /\ state = << >>
  /\ PadIdle
  /\ GaloisIdle
  /\ ModIdle
  /\ MrIdle
  /\ ShaIdle
  /\ RoundIdle
  /\ ChainIdle

\* AES::new(pk, bytes)
AesNew ==
  /\ pc = "aes_start"
  /\ aes' = AES_new(pk, in_bytes)
  /\ pc' = "aes_done"
  /\ UNCHANGED << in_bytes, data >>
  /\ UNCHANGED << aesVars, padVars, galoisVars, modVars >>
  /\ UNCHANGED << mrVars, shaVars, roundVars, chainVars >>

NextAes == AesNew

SpecAes == InitAes /\ [][NextAes]_vars

(***************************************************************************)
(* CbcEncryptor::encrypt taken one block at a time.                        *)
(***************************************************************************)
\* padding, chunking and the first working_state
CbcBegin ==
  /\ pc = "ready"
  /\ \E msg \in Messages :
       LET plain_bytes  == pad_input(msg)
           input_blocks == chunk_bytes_into_4x4_matrices(plain_bytes)
       IN  /\ message' = msg
           /\ chain_blocks' = input_blocks
           /\ chain_value' = xor_matrices(input_blocks[1], iv)
  /\ chain_out' = << >>
  /\ block_index' = 0
  /\ block_calls' = 0
  /\ pc' = "chaining"
  /\ UNCHANGED << pk, ks, iv, encrypted_blocks, cipher_bytes, dec_result,
                  decrypt_calls, plain_state, state >>
  /\ UNCHANGED << padVars, galoisVars, modVars >>
  /\ UNCHANGED << mrVars, shaVars, roundVars, ctorVars >>
  /\ UNCHANGED << cbc_state, first_blocks, calls >>

\* one turn of `for block in input_blocks`
CbcChain ==
  /\ pc = "chaining"
  /\ more_blocks(block_index, chain_blocks)
  /\ LET block     == chain_blocks[block_index + 1]
         encrypted == AesOps_encrypt(chain_value, ks.val)
     IN  /\ chain_out' = Append(chain_out, encrypted)
         /\ chain_value' = xor_matrices(encrypted, block)
  /\ block_calls' = block_calls + 1
  /\ block_index' = block_index + 1
  /\ UNCHANGED << pc, aesVars, padVars, galoisVars, modVars >>
  /\ UNCHANGED << mrVars, shaVars, roundVars, ctorVars >>
  /\ UNCHANGED << cbc_state, chain_blocks, first_blocks, calls >>

\* Ok(encrypted_blocks)
CbcDone ==
  /\ pc = "chaining"
  /\ ~more_blocks(block_index, chain_blocks)
  /\ encrypted_blocks' = Ok(chain_out)
  /\ pc' = "chain_done"
  /\ UNCHANGED << pk, ks, iv, message, cipher_bytes, dec_result,
                  decrypt_calls, plain_state, state >>
  /\ UNCHANGED << padVars, galoisVars, modVars, restVars >>

NextChain ==
  \/ NewKeySchedule
  \/ NewCbc
  \/ CbcBegin
  \/ CbcChain
  \/ CbcDone

SpecChain == Init /\ [][NextChain]_vars

(***************************************************************************)
(* Several encrypt and decrypt calls on one encryptor.                     *)
(***************************************************************************)
MaxCalls == 3

FrameMessages == {Pattern(5, 17), INPUT}
FrameCiphertexts == {Pattern(16, 3), Pattern(7, 3)}

\* the first message encrypted on the encryptor and what encrypt returned
Remembered(msg, result) ==
  IF first_blocks.tag = "None"
  THEN Some([message |-> msg, blocks |-> result])
  ELSE first_blocks

\* cbc_ops.encrypt(message) leaving the last ciphertext block in self.iv
EncryptCall_chain_kept ==
  /\ pc \in {"ready", "used"}
  /\ Len(calls) < MaxCalls
  /\ \E msg \in FrameMessages :
       LET r == CbcEncryptor_encrypt(iv, ks.val, msg)
       IN  /\ message' = msg
           /\ encrypted_blocks' = r
           /\ first_blocks' = Remembered(msg, r)
           /\ iv' = r.val[Len(r.val)]
  /\ calls' = Append(calls, "encrypt")
  /\ pc' = "used"
  /\ UNCHANGED << pk, ks, cipher_bytes, dec_result, decrypt_calls,
                  plain_state, state >>
  /\ UNCHANGED << padVars, galoisVars, modVars >>
  /\ UNCHANGED << mrVars, shaVars, roundVars, ctorVars >>
  /\ UNCHANGED << cbc_state, chain_blocks, block_index, chain_value,
                  chain_out, block_calls >>

\* cbc_ops.encrypt(message), the first call or a later one
EncryptCall ==
  /\ pc \in {"ready", "used"}
  /\ Len(calls) < MaxCalls
  /\ \E msg \in FrameMessages :
       LET r == CbcEncryptor_encrypt(iv, ks.val, msg)
       IN  /\ message' = msg
           /\ encrypted_blocks' = r
           /\ first_blocks' = Remembered(msg, r)
  /\ calls' = Append(calls, "encrypt")
  /\ pc' = "used"
  /\ UNCHANGED << pk, ks, iv, cipher_bytes, dec_result, decrypt_calls,
                  plain_state, state >>
  /\ UNCHANGED << padVars, galoisVars, modVars >>
  /\ UNCHANGED << mrVars, shaVars, roundVars, ctorVars >>
  /\ UNCHANGED << cbc_state, chain_blocks, block_index, chain_value,
                  chain_out, block_calls >>

\* cbc_ops.decrypt(cipher_bytes), the first call or a later one
DecryptCall ==
  /\ pc \in {"ready", "used"}
  /\ Len(calls) < MaxCalls
  /\ \E c \in FrameCiphertexts :
       LET r == CbcEncryptor_decrypt(iv, ks.val, c)
       IN  /\ cipher_bytes' = c
           /\ dec_result' = r.result
           /\ decrypt_calls' = r.calls
  /\ calls' = Append(calls, "decrypt")
  /\ pc' = "used"
  /\ UNCHANGED << pk, ks, iv, message, encrypted_blocks, plain_state, state >>
  /\ UNCHANGED << padVars, galoisVars, modVars >>
  /\ UNCHANGED << mrVars, shaVars, roundVars, ctorVars >>
  /\ UNCHANGED << cbc_state, chain_blocks, block_index, chain_value,
                  chain_out, block_calls, first_blocks >>

NextFrame ==
  \/ NewKeySchedule
  \/ NewCbc
  \/ EncryptCall
  \/ DecryptCall

SpecFrame == Init /\ [][NextFrame]_vars

(***************************************************************************)
(* The calls of pad_binary.                                                *)
(***************************************************************************)
MaxBinaryLen == 520

\* convert_msg_to_binary("hello world")
MSG_TO_BINARY ==
  << 0,1,1,0,1,0,0,0, 0,1,1,0,0,1,0,1, 0,1,1,0,1,1,0,0, 0,1,1,0,1,1,0,0,
     0,1,1,0,1,1,1,1, 0,0,1,0,0,0,0,0, 0,1,1,1,0,1,1,1, 0,1,1,0,1,1,1,1,
     0,1,1,1,0,0,1,0, 0,1,1,0,1,1,0,0, 0,1,1,0,0,1,0,0 >>

\* a bit string of len bits: the bits of MSG_TO_BINARY, repeated
Binary(len) == [i \in 1..len |-> MSG_TO_BINARY[((i - 1) % 88) + 1]]

InitSha ==
  /\ pc = "sha_start"
  /\ \E len \in 0..MaxBinaryLen : binary = Binary(len)
  /\ build \in {"debug", "release"}
  /\ padded_binary = None
  /\ AesIdle
  /\ PadIdle
  /\ GaloisIdle
  /\ ModIdle
  /\ MrIdle
  /\ RoundIdle
  /\ CtorIdle
  /\ ChainIdle

\* pad_binary(&binary)
PadBinary ==
  /\ pc = "sha_start"
  /\ padded_binary' = pad_binary(binary, build = "debug")
  /\ pc' = "sha_done"
  /\ UNCHANGED << binary, build >>
  /\ UNCHANGED << aesVars, padVars, galoisVars, modVars >>
  /\ UNCHANGED << mrVars, roundVars, ctorVars, chainVars >>

NextSha == PadBinary

SpecSha == InitSha /\ [][NextSha]_vars

(***************************************************************************)
(* The calls of MRPT::is_prime.                                            *)
(***************************************************************************)
MaxCandidate == 100

InitMr ==
  /\ pc = "mr_start"
  /\ mr_p \in 2..MaxCandidate
  /\ mr_result = None
  /\ AesIdle
  /\ PadIdle
  /\ GaloisIdle
  /\ ModIdle
  /\ ShaIdle
  /\ RoundIdle
  /\ CtorIdle
  /\ ChainIdle

\* MRPT::is_prime(p)
IsPrime ==
  /\ pc = "mr_start"
  /\ mr_result' = is_prime(mr_p)
  /\ pc' = "mr_done"
  /\ UNCHANGED mr_p
  /\ UNCHANGED << aesVars, padVars, galoisVars, modVars >>
  /\ UNCHANGED << shaVars, roundVars, ctorVars, chainVars >>

NextMr == IsPrime

SpecMr == InitMr /\ [][NextMr]_vars

\* p has no divisor between 1 and p
PrimeNumber(p) == p >= 2 /\ \A d \in 2..(p - 1) : p % d # 0

\* C21: MRPT::is_prime returns true for every prime p >= 3, the small
\* primes 3, 7 and 11 included.
C21_NoFalseNegatives ==
  (pc = "mr_done" /\ mr_p >= 3 /\ PrimeNumber(mr_p)) => mr_result = TRUE

\* where AesOps::encrypt is, and where AesOps::decrypt is
InEncrypt ==
  pc \in {"enc_loop", "enc_shift", "enc_mix", "enc_add", "enc_final_shift",
          "enc_final_add", "enc_done"}
InDecrypt ==
  pc \in {"dec_loop", "dec_sub", "dec_add", "dec_mix", "dec_final_sub",
          "dec_final_add", "dec_done"}

\* the step sequence of encryption for a schedule of r rounds: 4 * r steps
ExpectedEncryptSteps(r) ==
  [i \in 1..(4 * r) |->
     IF i = 1 THEN Step("AddRoundKey", 0)
     ELSE IF i = 4 * r THEN Step("AddRoundKey", r)
     ELSE CASE (i - 2) % 4 = 0 -> Step("SubBytes", -1)
            [] (i - 2) % 4 = 1 -> Step("ShiftRows", -1)
            [] (i - 2) % 4 = 2 -> Step("MixColumns", -1)
            [] (i - 2) % 4 = 3 -> Step("AddRoundKey", ((i - 2) \div 4) + 1)]

\* the step sequence of decryption for a schedule of r rounds
ExpectedDecryptSteps(r) ==
  [i \in 1..(4 * r) |->
     IF i = 1 THEN Step("AddRoundKey", r)
     ELSE IF i = 4 * r THEN Step("AddRoundKey", 0)
     ELSE CASE (i - 2) % 4 = 0 -> Step("InvShiftRows", -1)
            [] (i - 2) % 4 = 1 -> Step("InvSubBytes", -1)
            [] (i - 2) % 4 = 2 -> Step("AddRoundKey", r - 1 - ((i - 2) \div 4))
            [] (i - 2) % 4 = 3 -> Step("InvMixColumns", -1)]

\* how often op occurs in the log
Count(log, op) == Cardinality({i \in 1..Len(log) : log[i].op = op})

\* the round keys the log applies, in the order of the log
KeysApplied(log) ==
  LET at == {i \in 1..Len(log) : log[i].op = "AddRoundKey"}
  IN  [n \in 1..Cardinality(at) |->
         log[CHOOSE i \in at : Cardinality({j \in at : j <= i}) = n].key]

\* C22: AesOps::encrypt performs AddRoundKey(0), then SubBytes, ShiftRows,
\* MixColumns, AddRoundKey(round) for round = 1..rounds-1, then SubBytes,
\* ShiftRows, AddRoundKey(rounds): at every point the steps done are a prefix
\* of that sequence, and at the end MixColumns has run rounds-1 times, the
\* last step but one is not MixColumns, and the keys 0..rounds were applied
\* once each in ascending order.
C22_EncryptOrder ==
  InEncrypt =>
    LET r == ks.val.rounds
    IN  /\ Len(steps) <= 4 * r
        /\ steps = SubSeq(ExpectedEncryptSteps(r), 1, Len(steps))
        /\ pc = "enc_done" =>
             /\ Len(steps) = 4 * r
             /\ Count(steps, "MixColumns") = r - 1
             /\ steps[4 * r - 1].op = "ShiftRows"
             /\ KeysApplied(steps) = [n \in 1..(r + 1) |-> n - 1]
             /\ state = AesOps_encrypt(plain_state, ks.val)

C22_Witness ==
  /\ pc = "enc_done"
  /\ ks.val.rounds = 10
  /\ Len(steps) = 40
  /\ Count(steps, "MixColumns") = 9

\* C23: AesOps::decrypt performs AddRoundKey(rounds), then InvShiftRows,
\* InvSubBytes, AddRoundKey(round), InvMixColumns for round = rounds-1 down
\* to 1, then InvShiftRows, InvSubBytes, AddRoundKey(0): the keys are applied
\* once each in descending order, InvMixColumns runs rounds-1 times, each
\* time right after the AddRoundKey of a round >= 1.
C23_DecryptOrder ==
  InDecrypt =>
    LET r == ks.val.rounds
    IN  /\ Len(steps) <= 4 * r
        /\ steps = SubSeq(ExpectedDecryptSteps(r), 1, Len(steps))
        /\ \A i \in 1..Len(steps) :
             steps[i].op = "InvMixColumns" =>
               /\ i > 1
               /\ steps[i - 1].op = "AddRoundKey"
               /\ steps[i - 1].key >= 1
        /\ pc = "dec_done" =>
             /\ Len(steps) = 4 * r
             /\ Count(steps, "InvMixColumns") = r - 1
             /\ KeysApplied(steps) = [n \in 1..(r + 1) |-> r + 1 - n]
             /\ state = plain_state

C23_Witness ==
  /\ pc = "dec_done"
  /\ ks.val.rounds = 10
  /\ Len(steps) = 40
  /\ Count(steps, "InvMixColumns") = 9

\* C27: every schedule KeySchedule::new returns holds 4 * (rounds + 1)
\* words, round_key(r) stays inside it for r in 0..rounds, and every round
\* key AesOps::encrypt and AesOps::decrypt ask for has an index in 0..rounds.
C27_ScheduleSize ==
  ks.tag = "Ok" =>
    /\ Len(ks.val.keys) = 4 * (ks.val.rounds + 1)
    /\ \A r \in 0..ks.val.rounds : 4 * r + 4 <= Len(ks.val.keys)
    /\ \A i \in 1..Len(steps) :
         steps[i].op = "AddRoundKey" =>
           /\ steps[i].key \in 0..ks.val.rounds
           /\ 4 * steps[i].key + 4 <= Len(ks.val.keys)

C27_Witness ==
  /\ pc = "dec_done"
  /\ ks.tag = "Ok"
  /\ Len(ks.val.keys) = 44
  /\ Count(steps, "AddRoundKey") = 11

\* C24: after shift_rows state[c][r] is the old state[(c + r) mod 4][r];
\* after inv_shift_rows state[c][r] is the old state[(c - r) mod 4][r];
\* inv_shift_rows after shift_rows gives the old state back.
C24_ShiftRows ==
  /\ pc = "shifted" =>
       \A c \in 0..3 : \A r \in 0..3 :
         state[c + 1][r + 1] = plain_state[((c + r) % 4) + 1][r + 1]
  /\ pc = "inv_shifted" =>
       \A c \in 0..3 : \A r \in 0..3 :
         state[c + 1][r + 1] = plain_state[((c + 4 - r) % 4) + 1][r + 1]
  /\ pc = "unshifted" => state = plain_state

C24_Witness ==
  /\ pc = "unshifted"
  /\ plain_state = gen_matrix(Shifted(1, 0))
  /\ state = plain_state

\* C25: gen_matrix and State::new both place input byte i at
\* [i / 4][i % 4], the first index being the column.
C25_ColumnMajorLayout ==
  /\ pc = "gen_done" =>
       \A i \in 0..15 : state[(i \div 4) + 1][(i % 4) + 1] = in_bytes[i + 1]
  /\ pc = "new_done" =>
       \A i \in 0..15 : data[(i \div 4) + 1][(i % 4) + 1] = in_bytes[i + 1]

\* C29: when the key length is not 16, 24 or 32, AES::new fails with
\* InvalidKeySize whatever the block bytes are.
C29_KeyValidatedFirst ==
  (pc = "aes_done" /\ Len(pk) \notin {16, 24, 32}) =>
    aes = Err("InvalidKeySize", Len(pk))

\* C26: for a message of m bytes CbcEncryptor::encrypt takes the
\* floor(m / 16) + 1 padded blocks one by one in their order, makes one block
\* encryption per block, and ends with Ok of that many 16-byte blocks, so
\* the ciphertext length is a multiple of 16; the empty message included.
C26_ChainMachine ==
  pc \in {"chaining", "chain_done"} =>
    LET n == (Len(message) \div 16) + 1
    IN  /\ Len(chain_blocks) = n
        /\ block_index \in 0..n
        /\ block_calls = block_index
        /\ Len(chain_out) = block_index
        /\ pc = "chain_done" =>
             /\ block_calls = n
             /\ encrypted_blocks.tag = "Ok"
             /\ Len(encrypted_blocks.val) = n
             /\ \A i \in 1..n : Len(block_bytes(encrypted_blocks.val[i])) = 16
             /\ Len(EncryptedBytes) = 16 * n
             /\ encrypted_blocks = CbcEncryptor_encrypt(iv, ks.val, message)

C26_Witness ==
  /\ pc = "chain_done"
  /\ message = << >>
  /\ block_calls = 1
  /\ Len(encrypted_blocks.val) = 1

\* C28: an encrypt or decrypt call leaves the encryptor's iv, its state
\* field and the key schedule as they were, and whenever the message last
\* encrypted is the first one encrypted on the encryptor, the blocks returned
\* are those of the first time.
C28_CallFrame ==
  /\ [][(pc \in {"ready", "used"} /\ pc' = "used") =>
          (iv' = iv /\ cbc_state' = cbc_state /\ ks' = ks)]_vars
  /\ []((pc = "used" /\ first_blocks.tag = "Some"
           /\ message = first_blocks.val.message)
          => encrypted_blocks = first_blocks.val.blocks)

C28_Witness ==
  /\ pc = "used"
  /\ calls = << "encrypt", "decrypt", "encrypt" >>
  /\ dec_result.tag = "Ok"
  /\ message = first_blocks.val.message
  /\ encrypted_blocks = first_blocks.val.blocks

\* L as a 64-bit big-endian binary number, for L below 2^20
LengthField(L) ==
  [i \in 1..64 |-> IF 64 - i >= 20 THEN 0 ELSE (L \div (2 ^ (64 - i))) % 2]

\* C30: for a bit string b of every length L pad_binary returns b, then 1,
\* then k zeros with k = (448 - L - 1) mod 512 as a non-negative residue,
\* then L as a 64-bit big-endian number; nothing overflows and the padded
\* length is a multiple of 512.
C30_PadBinary ==
  pc = "sha_done" =>
    LET L == Len(binary)
        k == (448 - L - 1) % 512
    IN  /\ padded_binary.outcome = "returned"
        /\ padded_binary.buffer = binary \o << 1 >> \o zeros(k) \o LengthField(L)
        /\ Len(padded_binary.buffer) % 512 = 0

====
